---- MODULE Spec2Model ----
(***************************************************************************)
(* Contextual-Search: the event-ingestion worker (app/services/            *)
(* event_service.py); the intent extractor (app/nlp/intent_extractor.py);  *)
(* the search call (app/services/search_service.py) with its filter        *)
(* merger, filter predicate and candidate walk; click-based ranking        *)
(* (app/services/ranking_service.py) over the events table                 *)
(* (app/data/behavior_repository.py), the explanation of results           *)
(* (app/ai/explanation_service.py), and the routes on the event loop       *)
(* (app/api/search_routes.py, app/api/event_routes.py).                    *)
(***************************************************************************)
EXTENDS Integers, Sequences, FiniteSets, TLC

\* ---------------------------------------------------------------- bounds
MaxEvents == 2      \* events the producers offer to track_event
MaxTasks == 2       \* consumer tasks start_worker may spawn
MaxStops == 1       \* calls of stop_worker
MaxCallerFields == 2 \* fields a caller sets in one SearchFilters
MaxQueryAttrs == 1  \* category / brand / color / size words in one query
MaxWords == 3       \* words in a query given as text

Events == 1..MaxEvents
TaskIds == 1..MaxTasks

\* asyncio.Queue() is built without a maxsize: asyncio's default, 0
maxsize == 0

VARIABLES
    is_running,             \* EventService.is_running
    worker_task,            \* EventService.worker_task: 0 is None, else a task id
    tasks,                  \* the _worker coroutines: position, pending cancel, item in hand
    queue,                  \* EventService.queue: the queued events, oldest first
    unfinished,             \* asyncio.Queue._unfinished_tasks (what join() waits on)
    threads,                \* save_event calls running in the thread pool
    store,                  \* rows of the events table, in insertion order
    failed,                 \* events whose save_event raised
    total_events_processed, \* EventService.total_events_processed
    offered,                \* number of track_event calls so far
    dropped,                \* events track_event dropped on QueueFull
    stopPc,                 \* position of the stop_worker coroutine
    stopAwaited,            \* the task object stop_worker is awaiting
    stops,                  \* calls of stop_worker so far
    pendingAtStop,          \* accepted and not yet persisted when stop_worker was called
    lastOp,                 \* outcome of the latest start_worker / track_event call
    spc,                    \* position of one SearchService.search call
    nlp_constraints,        \* intent['constraints'] of the query
    ui_filters,             \* the caller's SearchFilters (or None)
    merged_filters,         \* what _merge_filters returned
    passes,                 \* _passes_filters of each stored product
    query,                  \* the query text given to extract_intent / search
    semantic_query,         \* intent['semantic_query']
    rpc,                    \* position of one search call that goes on to retrieval
    limit,                  \* the `limit` argument
    index,                  \* the indexed vectors, nearest to the query first
    candidates,             \* zip(product_ids, distances) of vector_repo.search
    results,                \* `results` after the candidate loop
    metrics,                \* what get_product_metrics returned
    adjusted,               \* reranked_results before the sort
    ranked,                 \* what apply_ranking returned
    returned,               \* what search returned
    explained               \* one generate_explanation call: arguments and result

evars == <<is_running, worker_task, tasks, queue, unfinished, threads, store,
           failed, total_events_processed, offered, dropped, stopPc,
           stopAwaited, stops, pendingAtStop, lastOp>>

xvars == <<query, semantic_query>>

svars == <<spc, nlp_constraints, ui_filters, merged_filters, passes, xvars>>

rvars == <<rpc, limit, index, candidates, results, metrics, adjusted, ranked,
           returned, explained>>

vars == <<evars, svars, rvars>>

Range(s) == {s[i] : i \in DOMAIN s}

NoTask == [pc |-> "none", cancel |-> FALSE, item |-> 0, ok |-> FALSE]

\* a task whose coroutine has returned (loop left, or CancelledError -> break)
Finished == [pc |-> "done", cancel |-> FALSE, item |-> 0, ok |-> FALSE]

Alive(t) == tasks[t].pc \in {"created", "get", "save", "saved"}

\* events put on the queue by track_event
Accepted == (1..offered) \ dropped

\* asyncio.Queue.full(): a queue with maxsize <= 0 is never full
QueueFull(q) == maxsize > 0 /\ Len(q) >= maxsize

EventInit ==
    /\ is_running = FALSE
    /\ worker_task = 0
    /\ tasks = [t \in TaskIds |-> NoTask]
    /\ queue = <<>>
    /\ unfinished = 0
    /\ threads = {}
    /\ store = <<>>
    /\ failed = {}
    /\ total_events_processed = 0
    /\ offered = 0
    /\ dropped = {}
    /\ stopPc = "idle"
    /\ stopAwaited = 0
    /\ stops = 0
    /\ pendingAtStop = {}
    /\ lastOp = "none"

\* ------------------------------------------------------------ start_worker
StartWorker ==
    IF is_running
    THEN /\ lastOp # "already_running"
         /\ lastOp' = "already_running"
         /\ UNCHANGED <<is_running, worker_task, tasks, queue, unfinished,
                        threads, store, failed, total_events_processed,
                        offered, dropped, stopPc, stopAwaited, stops,
                        pendingAtStop, svars, rvars>>
    ELSE /\ \E t \in TaskIds :
              /\ tasks[t].pc = "none"
              /\ \A u \in TaskIds : u < t => tasks[u].pc # "none"
              /\ is_running' = TRUE
              /\ worker_task' = t
              /\ tasks' = [tasks EXCEPT ![t] = [NoTask EXCEPT !.pc = "created"]]
         /\ lastOp' = "spawned"
         /\ UNCHANGED <<queue, unfinished, threads, store, failed,
                        total_events_processed, offered, dropped, stopPc,
                        stopAwaited, stops, pendingAtStop, svars, rvars>>

\* ------------------------------------------------------------- track_event
\* (mutation of TrackEvent: the event is put at the front of the queue)
TrackEvent_PutsInFront ==
    /\ offered < MaxEvents
    /\ offered' = offered + 1
    /\ IF QueueFull(queue)
       THEN /\ dropped' = dropped \cup {offered + 1}
            /\ lastOp' = "dropped"
            /\ UNCHANGED <<queue, unfinished>>
       ELSE /\ queue' = <<offered + 1>> \o queue
            /\ unfinished' = unfinished + 1
            /\ lastOp' = "accepted"
            /\ UNCHANGED dropped
    /\ UNCHANGED <<is_running, worker_task, tasks, threads, store, failed,
                   total_events_processed, stopPc, stopAwaited, stops,
                   pendingAtStop, svars, rvars>>

\* track_event: put_nowait, or the drop on QueueFull
TrackEvent ==
    /\ offered < MaxEvents
    /\ offered' = offered + 1
    /\ IF QueueFull(queue)
       THEN /\ dropped' = dropped \cup {offered + 1}
            /\ lastOp' = "dropped"
            /\ UNCHANGED <<queue, unfinished>>
       ELSE /\ queue' = Append(queue, offered + 1)
            /\ unfinished' = unfinished + 1
            /\ lastOp' = "accepted"
            /\ UNCHANGED dropped
    /\ UNCHANGED <<is_running, worker_task, tasks, threads, store, failed,
                   total_events_processed, stopPc, stopAwaited, stops,
                   pendingAtStop, svars, rvars>>

\* ----------------------------------------------------------------- _worker
\* (mutation of QueueGet: the event is read but stays on the queue)
QueueGet_Peek(q) == q

\* what queue.get() leaves on the queue
QueueGet(q) == Tail(q)

\* The `while self.is_running:` loop of task t from its top to the point
\* where the task suspends (queue.get() on an empty queue, or the
\* to_thread call of _process_event) or returns.
WorkerLoop(t) ==
    IF ~is_running
    THEN /\ tasks' = [tasks EXCEPT ![t] = Finished]
         /\ UNCHANGED <<queue, threads>>
    ELSE IF queue = <<>>
    THEN /\ tasks' = [tasks EXCEPT ![t] = [NoTask EXCEPT !.pc = "get"]]
         /\ UNCHANGED <<queue, threads>>
    ELSE /\ tasks' = [tasks EXCEPT ![t] =
                        [NoTask EXCEPT !.pc = "save", !.item = Head(queue)]]
         /\ queue' = QueueGet(queue)
         /\ threads' = threads \cup {Head(queue)}

\* first step of a freshly created task
WorkerStart(t) ==
    /\ tasks[t].pc = "created"
    /\ ~tasks[t].cancel
    /\ WorkerLoop(t)
    /\ UNCHANGED <<is_running, worker_task, unfinished, store, failed,
                   total_events_processed, offered, dropped, stopPc,
                   stopAwaited, stops, pendingAtStop, lastOp, svars, rvars>>

\* queue.get() returns: an event was put while the task was waiting
WorkerGetResume(t) ==
    /\ tasks[t].pc = "get"
    /\ ~tasks[t].cancel
    /\ queue # <<>>
    /\ tasks' = [tasks EXCEPT ![t] =
                    [NoTask EXCEPT !.pc = "save", !.item = Head(queue)]]
    /\ queue' = QueueGet(queue)
    /\ threads' = threads \cup {Head(queue)}
    /\ UNCHANGED <<is_running, worker_task, unfinished, store, failed,
                   total_events_processed, offered, dropped, stopPc,
                   stopAwaited, stops, pendingAtStop, lastOp, svars, rvars>>

\* (mutation of OnSaveError: the exception escapes and ends the task)
OnSaveError_Propagates(tk) == Finished

\* the task after save_event raised inside _process_event: the exception is
\* caught and logged there, the task goes on to task_done()
OnSaveError(tk) == [tk EXCEPT !.pc = "saved", !.ok = FALSE]

\* repository.save_event runs in the thread pool: it inserts the row or
\* raises; the awaiting task, if there still is one, becomes runnable
SaveEvent(e) ==
    /\ e \in threads
    /\ threads' = threads \ {e}
    /\ \E success \in BOOLEAN :
         /\ IF success
            THEN store' = Append(store, e) /\ UNCHANGED failed
            ELSE failed' = failed \cup {e} /\ UNCHANGED store
         /\ tasks' = [t \in TaskIds |->
                        IF tasks[t].pc = "save" /\ tasks[t].item = e
                        THEN IF success
                             THEN [tasks[t] EXCEPT !.pc = "saved", !.ok = TRUE]
                             ELSE OnSaveError(tasks[t])
                        ELSE tasks[t]]
    /\ UNCHANGED <<is_running, worker_task, queue, unfinished,
                   total_events_processed, offered, dropped, stopPc,
                   stopAwaited, stops, pendingAtStop, lastOp, svars, rvars>>

\* _process_event returns; task_done(); back to the top of the loop
WorkerSaveResume(t) ==
    /\ tasks[t].pc = "saved"
    /\ ~tasks[t].cancel
    /\ total_events_processed' =
          IF tasks[t].ok THEN total_events_processed + 1
                         ELSE total_events_processed
    /\ unfinished' = unfinished - 1
    /\ stopPc' = IF stopPc = "join" /\ unfinished = 1 THEN "join_woken" ELSE stopPc
    /\ WorkerLoop(t)
    /\ UNCHANGED <<is_running, worker_task, store, failed, offered, dropped,
                   stopAwaited, stops, pendingAtStop, lastOp, svars, rvars>>

\* a cancelled task gets CancelledError at its next step, wherever it is
\* suspended: `except asyncio.CancelledError: break`
WorkerCancelled(t) ==
    /\ Alive(t)
    /\ tasks[t].cancel
    /\ tasks' = [tasks EXCEPT ![t] = Finished]
    /\ UNCHANGED <<is_running, worker_task, queue, unfinished, threads, store,
                   failed, total_events_processed, offered, dropped, stopPc,
                   stopAwaited, stops, pendingAtStop, lastOp, svars, rvars>>

\* ------------------------------------------------------------- stop_worker
\* self.worker_task.cancel(); await self.worker_task
CancelAndAwait ==
    IF Alive(worker_task)
    THEN /\ tasks' = [tasks EXCEPT ![worker_task].cancel = TRUE]
         /\ stopAwaited' = worker_task
         /\ stopPc' = "await"
    ELSE /\ stopPc' = "returned"
         /\ UNCHANGED <<tasks, stopAwaited>>

StopCall ==
    /\ stopPc \in {"idle", "returned"}
    /\ stops < MaxStops
    /\ stops' = stops + 1
    /\ is_running' = FALSE
    /\ pendingAtStop' = IF is_running
                        THEN Accepted \ (Range(store) \cup failed)
                        ELSE {}
    /\ IF worker_task = 0
       THEN stopPc' = "returned" /\ UNCHANGED <<tasks, stopAwaited>>
       ELSE IF queue # <<>>
       THEN stopPc' = "join" /\ UNCHANGED <<tasks, stopAwaited>>
       ELSE CancelAndAwait
    /\ UNCHANGED <<worker_task, queue, unfinished, threads, store, failed,
                   total_events_processed, offered, dropped, lastOp, svars, rvars>>

\* queue.join() returns: task_done() brought the unfinished count to zero
StopJoinResume ==
    /\ stopPc = "join_woken"
    /\ CancelAndAwait
    /\ UNCHANGED <<is_running, worker_task, queue, unfinished, threads, store,
                   failed, total_events_processed, offered, dropped, stops,
                   pendingAtStop, lastOp, svars, rvars>>

\* `await self.worker_task` returns: the awaited task has ended
StopAwaitResume ==
    /\ stopPc = "await"
    /\ tasks[stopAwaited].pc = "done"
    /\ stopPc' = "returned"
    /\ UNCHANGED <<is_running, worker_task, tasks, queue, unfinished, threads,
                   store, failed, total_events_processed, offered, dropped,
                   stopAwaited, stops, pendingAtStop, lastOp, svars, rvars>>

\* =================================================================
\* Query pipeline: constraints, filter merger, filter predicate
\* =================================================================

\* Python values: None, a float (in hundredths), a str (its characters)
PyNone == [t |-> "none"]
Num(n) == [t |-> "float", v |-> n]
Str(s) == [t |-> "str", v |-> s]

IsNone(val) == val.t = "none"

\* Python == on two such values
PyEq(a, b) == a.t = b.t /\ (a.t = "none" \/ a.v = b.v)

\* Python truth value: None, 0.0 and '' are false
Truthy(val) ==
    IF val.t = "none" THEN FALSE
    ELSE IF val.t = "float" THEN val.v # 0
    ELSE val.v # <<>>

\* `a or b`
PyOr(a, b) == IF Truthy(a) THEN a ELSE b

Whitespace == {" ", "\t", "\n"}

\* s.strip() == ''
StripIsEmpty(s) == \A i \in DOMAIN s : s[i] \in Whitespace

UpperChars == <<"A", "B", "C", "D", "E", "F", "G", "H", "I", "J", "K", "L", "M",
                "N", "O", "P", "Q", "R", "S", "T", "U", "V", "W", "X", "Y", "Z">>
LowerChars == <<"a", "b", "c", "d", "e", "f", "g", "h", "i", "j", "k", "l", "m",
                "n", "o", "p", "q", "r", "s", "t", "u", "v", "w", "x", "y", "z">>

\* the lower-case form of each upper-case letter, and the converse
LowerOf == [c \in Range(UpperChars) |->
              LowerChars[CHOOSE k \in DOMAIN UpperChars : UpperChars[k] = c]]
UpperOf == [c \in Range(LowerChars) |->
              UpperChars[CHOOSE k \in DOMAIN LowerChars : LowerChars[k] = c]]

\* str.lower() and str.upper()
Lower(s) == [i \in DOMAIN s |-> IF s[i] \in DOMAIN LowerOf THEN LowerOf[s[i]] ELSE s[i]]
Upper(s) == [i \in DOMAIN s |-> IF s[i] \in DOMAIN UpperOf THEN UpperOf[s[i]] ELSE s[i]]

\* `needle in hay` on two str
Contains(needle, hay) ==
    \E i \in 0..(Len(hay) - Len(needle)) :
        SubSeq(hay, i + 1, i + Len(needle)) = needle

\* ------------------------------------------------------ intent extractor
\* What the regular expressions of the extractor found in the lower-cased
\* query: the number captured by the first matching pattern of each
\* group (PyNone when no pattern of the group matches), the word found
\* for category / brand / color / size, and the two keyword tests.

\* round(x, 2) of x = n / d hundredths
Round2(n, d) == (2 * n + d) \div (2 * d)

_extract_price(m) ==
    IF ~IsNone(m.approx)
    THEN \* margin = price * 0.15; round(price -/+ margin, 2)
         [t |-> "dict",
          price_min |-> Num(Round2(m.approx.v * 85, 100)),
          price_max |-> Num(Round2(m.approx.v * 115, 100)),
          approximate_price |-> TRUE]
    ELSE IF ~IsNone(m.range_lo)
    THEN [t |-> "dict", price_min |-> m.range_lo, price_max |-> m.range_hi,
          approximate_price |-> FALSE]
    ELSE \* upper and lower bound patterns are tried independently
         IF Truthy(m.lower) \/ Truthy(m.upper)
         THEN [t |-> "dict", price_min |-> m.lower, price_max |-> m.upper,
               approximate_price |-> FALSE]
         ELSE PyNone

_extract_rating(m) ==
    IF m.highly_rated THEN Num(450)
    ELSE m.rating

\* the conflict test of extract_intent
DetectConflict(price_min, price_max) ==
    Truthy(price_min) /\ Truthy(price_max) /\ price_min.v > price_max.v

extract_intent(m) ==
    LET price_info == _extract_price(m)
        price_min == IF IsNone(price_info) THEN PyNone ELSE price_info.price_min
        price_max == IF IsNone(price_info) THEN PyNone ELSE price_info.price_max
    IN  [price_min |-> price_min,
         price_max |-> price_max,
         rating_min |-> _extract_rating(m),
         category |-> m.category,
         brand |-> m.brand,
         color |-> m.color,
         size |-> IF IsNone(m.size) THEN PyNone ELSE Str(Upper(m.size.v)),
         approximate_price |-> IF IsNone(price_info) THEN FALSE
                               ELSE price_info.approximate_price,
         fuzzy_price |-> m.fuzzy,
         conflict |-> DetectConflict(price_min, price_max)]

\* numbers written in the queries (hundredths), and the words
\* the numbers after "over" and after "under"
QueryPrices == {Num(0), Num(300)}
QueryUpperPrices == {Num(0), Num(100)}
QueryRanges == {<<PyNone, PyNone>>, <<Num(100), Num(300)>>, <<Num(300), Num(0)>>,
                <<Num(0), Num(0)>>}
QueryRatings == {PyNone, Num(400)}
bags == <<"b", "a", "g", "s">>
Nike == <<"N", "i", "k", "e">>
red == <<"r", "e", "d">>
xl == <<"x", "l">>

Count(S) == Cardinality(S)

Matches ==
    {m \in [approx : {PyNone, Num(100)},
            range : QueryRanges,
            upper : {PyNone} \cup QueryUpperPrices,
            lower : {PyNone} \cup QueryPrices,
            highly_rated : BOOLEAN,
            rating : QueryRatings,
            category : {PyNone, Str(bags)},
            brand : {PyNone, Str(Nike)},
            color : {PyNone, Str(red)},
            size : {PyNone, Str(xl)},
            fuzzy : BOOLEAN] :
        Count({f \in {"category", "brand", "color", "size"} : ~IsNone(m[f])})
            <= MaxQueryAttrs}

MatchOf(m) ==
    [approx |-> m.approx, range_lo |-> m.range[1], range_hi |-> m.range[2],
     upper |-> m.upper, lower |-> m.lower, highly_rated |-> m.highly_rated,
     rating |-> m.rating, category |-> m.category, brand |-> m.brand,
     color |-> m.color, size |-> m.size, fuzzy |-> m.fuzzy]

\* ---------------------------------------------------------- SearchFilters
Books == <<"B", "o", "o", "k", "s">>
Sony == <<"S", "o", "n", "y">>
blue == <<"b", "l", "u", "e">>
blank == <<" ">>

CallerFields == {"price_min", "price_max", "max_price", "min_rating",
                 "category", "brand", "color", "size",
                 "approximate_price", "fuzzy_price", "conflict"}

\* the values a caller sends in each field, other than None
CallerValues ==
    [price_min |-> {Num(0), Num(200)},
     price_max |-> {Num(0), Num(200)},
     max_price |-> {Num(0), Num(200)},
     min_rating |-> {Num(0), Num(300)},
     category |-> {Str(blank), Str(bags), Str(Books)},
     brand |-> {Str(blank), Str(Sony)},
     color |-> {Str(<<>>), Str(blue)},
     size |-> {Str(blank), Str(xl)},
     approximate_price |-> {[t |-> "bool", v |-> TRUE]},
     fuzzy_price |-> {[t |-> "bool", v |-> TRUE]},
     conflict |-> {[t |-> "bool", v |-> TRUE]}]

\* SearchFilters(): every field defaults to None
DefaultFilters ==
    [t |-> "SearchFilters", price_min |-> PyNone, price_max |-> PyNone,
     max_price |-> PyNone, min_rating |-> PyNone, category |-> PyNone,
     brand |-> PyNone, color |-> PyNone, size |-> PyNone,
     approximate_price |-> PyNone, fuzzy_price |-> PyNone, conflict |-> PyNone]

RECURSIVE FiltersWith(_)
\* the SearchFilters objects with at most k fields set
FiltersWith(k) ==
    IF k = 0 THEN {DefaultFilters}
    ELSE LET fewer == FiltersWith(k - 1)
         IN  fewer \cup {[u EXCEPT ![f] = v] :
                            u \in fewer, <<f, v>> \in
                                UNION {{<<g, w>> : w \in CallerValues[g]} : g \in CallerFields}}

CallerFilters == FiltersWith(MaxCallerFields)

\* ---------------------------------------------------------- _merge_filters
\* (mutation of is_empty: zero counts as a value)
is_empty_ZeroIsValue(val) ==
    \/ val.t = "none"
    \/ val.t = "str" /\ StripIsEmpty(val.v)

is_empty(val) ==
    \/ val.t = "none"
    \/ val.t = "str" /\ StripIsEmpty(val.v)
    \/ val.t = "float" /\ val.v = 0

\* float(x) if x else None
FloatOrNone(val) == IF Truthy(val) THEN Num(val.v) ELSE PyNone

\* (mutation of ResolveConflict: the caller's bound is the one cleared)
ResolveConflict_ClearsCaller(price_min, price_max, ui_has_price, ui_set_min, ui_set_max) ==
    IF ui_has_price /\ ~IsNone(price_max) /\ ~IsNone(price_min)
       /\ price_min.v > price_max.v
    THEN <<IF ui_set_min THEN PyNone ELSE price_min,
           IF ui_set_max THEN PyNone ELSE price_max>>
    ELSE <<price_min, price_max>>

\* conflict resolution: the pair (price_min, price_max) after clearing
ResolveConflict(price_min, price_max, ui_has_price, ui_set_min, ui_set_max) ==
    IF ui_has_price /\ ~IsNone(price_max) /\ ~IsNone(price_min)
       /\ price_min.v > price_max.v
    THEN <<IF ~ui_set_min THEN PyNone ELSE price_min,
           IF ~ui_set_max THEN PyNone ELSE price_max>>
    ELSE <<price_min, price_max>>

\* (mutation of RecheckConflict: the bounds are tested by truth value)
RecheckConflict_ByTruthValue(price_min, price_max) ==
    Truthy(price_min) /\ Truthy(price_max) /\ price_min.v > price_max.v

\* `if price_min is not None and price_max is not None and price_min > price_max`
RecheckConflict(price_min, price_max) ==
    /\ ~IsNone(price_min)
    /\ ~IsNone(price_max)
    /\ price_min.v > price_max.v

_merge_filters(nlp, ui) ==
    LET has_ui == ui.t # "none"
        over(f) == has_ui /\ ~is_empty(ui[f])
        price_min == IF over("price_min") THEN FloatOrNone(ui.price_min)
                     ELSE nlp.price_min
        price_max == IF over("price_max") THEN FloatOrNone(ui.price_max)
                     ELSE IF over("max_price") THEN FloatOrNone(ui.max_price)
                     ELSE nlp.price_max
        min_rating == IF over("min_rating") THEN FloatOrNone(ui.min_rating)
                      ELSE nlp.rating_min
        category == IF over("category") THEN ui.category ELSE nlp.category
        brand == IF over("brand") THEN ui.brand ELSE nlp.brand
        color == IF over("color") THEN ui.color ELSE nlp.color
        size == IF over("size") THEN ui.size ELSE nlp.size
        ui_set_min == over("price_min")
        ui_set_max == over("price_max") \/ over("max_price")
        ui_has_price == ui_set_min \/ ui_set_max
        pair == ResolveConflict(price_min, price_max, ui_has_price,
                                ui_set_min, ui_set_max)
    IN  [t |-> "SearchFilters",
         price_min |-> pair[1],
         price_max |-> pair[2],
         max_price |-> PyNone,
         min_rating |-> min_rating,
         category |-> category,
         brand |-> brand,
         color |-> color,
         size |-> size,
         approximate_price |-> nlp.approximate_price,
         fuzzy_price |-> nlp.fuzzy_price,
         conflict |-> RecheckConflict(pair[1], pair[2]),
         _nlp_category |-> /\ PyEq(category, nlp.category)
                           /\ (~has_ui \/ is_empty(ui.category))]

\* --------------------------------------------------------- _passes_filters
\* rows of the products table (no brand column); prices and ratings in
\* hundredths
ProductStore ==
    << [price |-> Num(100), rating |-> Num(500), category |-> <<"B", "a", "g", "s">>,
        title |-> <<"R", "e", "d", " ", "b", "a", "g">>,
        description |-> <<"N", "i", "k", "e", " ", "x", "l">>],
       [price |-> Num(300), rating |-> Num(200), category |-> Books,
        title |-> <<"B", "l", "u", "e", " ", "b", "o", "o", "k">>,
        description |-> <<>>],
       [price |-> PyNone, rating |-> PyNone, category |-> <<>>,
        title |-> <<"b", "a", "g">>, description |-> <<"S", "o", "n", "y">>],
       [price |-> Num(0), rating |-> Num(400), category |-> <<"B", "a", "g", "s">>,
        title |-> <<"b", "a", "g", " ", "X", "L">>, description |-> <<>>] >>

\* (mutation of ProductBrand: the brand is looked for in title and description)
ProductBrand_FromText(product) == product.title \o <<" ">> \o product.description

\* product.get('brand', ''): a row has no brand key
ProductBrand(product) == <<>>

\* `if filters.conflict: return True`
FailOpen(filters) == filters.conflict

\* (mutation of CategoryMismatch: the category filters whatever its origin)
CategoryMismatch_IgnoresOrigin(product, filters) ==
    /\ Truthy(filters.category)
    /\ ~Contains(Lower(filters.category.v), Lower(product.category))

\* the category test: only a category that did not come from the query
\* filters, by case-insensitive containment in the product's category
CategoryMismatch(product, filters) ==
    /\ Truthy(filters.category)
    /\ ~filters._nlp_category
    /\ ~Contains(Lower(filters.category.v), Lower(product.category))

_passes_filters(product, filters) ==
    LET max_price == PyOr(filters.price_max, filters.max_price)
        searchable_text == Lower(product.title \o <<" ">> \o product.description)
    IN  IF FailOpen(filters) THEN TRUE
        ELSE IF /\ ~IsNone(filters.price_min)
                /\ (IsNone(product.price) \/ product.price.v < filters.price_min.v)
        THEN FALSE
        ELSE IF /\ ~IsNone(max_price)
                /\ (IsNone(product.price) \/ product.price.v > max_price.v)
        THEN FALSE
        ELSE IF /\ ~IsNone(filters.min_rating)
                /\ (IsNone(product.rating) \/ product.rating.v < filters.min_rating.v)
        THEN FALSE
        ELSE IF CategoryMismatch(product, filters)
        THEN FALSE
        ELSE IF /\ Truthy(filters.brand)
                /\ ~Contains(Lower(filters.brand.v), Lower(ProductBrand(product)))
        THEN FALSE
        ELSE IF /\ Truthy(filters.color)
                /\ ~Contains(Lower(filters.color.v), searchable_text)
        THEN FALSE
        ELSE IF /\ Truthy(filters.size)
                /\ ~Contains(Lower(filters.size.v), searchable_text)
        THEN FALSE
        ELSE TRUE

\* ------------------------------------------------------ the query as text
\* A query is a Python str: the tuple of its characters.  The patterns of
\* the extractor are matched word by word: a keyword, `\s+`, a number.
\* The words of the model's queries contain no keyword as a proper part,
\* and its numbers are runs of digits.
Digits == <<"0", "1", "2", "3", "4", "5", "6", "7", "8", "9">>

IsNumber(word) ==
    /\ word # <<>>
    /\ \A i \in DOMAIN word : \E d \in DOMAIN Digits : Digits[d] = word[i]

RECURSIVE ParseDigits(_)
ParseDigits(word) ==
    IF word = <<>> THEN 0
    ELSE 10 * ParseDigits(SubSeq(word, 1, Len(word) - 1))
         + (CHOOSE d \in DOMAIN Digits : Digits[d] = word[Len(word)]) - 1

\* float(match.group(1)), in hundredths
ToFloat(word) == Num(100 * ParseDigits(word))

under == <<"u", "n", "d", "e", "r">>
over == <<"o", "v", "e", "r">>
around == <<"a", "r", "o", "u", "n", "d">>
between == <<"b", "e", "t", "w", "e", "e", "n">>
and == <<"a", "n", "d">>
rated == <<"r", "a", "t", "e", "d">>
above == <<"a", "b", "o", "v", "e">>
highly == <<"h", "i", "g", "h", "l", "y">>
size == <<"s", "i", "z", "e">>
nike == <<"n", "i", "k", "e">>
products == <<"p", "r", "o", "d", "u", "c", "t", "s">>

RECURSIVE Tokenize(_, _)
\* the maximal runs of non-whitespace of text from position `from` on,
\* each with its span (start, end) as re reports it: 0-based, end exclusive
Tokenize(text, from) ==
    IF from > Len(text) THEN <<>>
    ELSE IF text[from] \in Whitespace THEN Tokenize(text, from + 1)
    ELSE LET end == CHOOSE j \in from..Len(text) :
                       /\ \A k \in from..j : text[k] \notin Whitespace
                       /\ (j = Len(text) \/ text[j + 1] \in Whitespace)
         IN  <<[w |-> SubSeq(text, from, end), s |-> from - 1, e |-> end]>>
             \o Tokenize(text, end + 1)

NoMatch == [t |-> "none"]

\* re.search(pattern, query) for a pattern `k1\s+...\s+kn\s+(number)`:
\* the leftmost occurrence; group(1) and the span of the whole match
SearchKeywordsNumber(toks, keywords) ==
    LET n == Len(keywords)
        hits == {i \in 1..(Len(toks) - n) :
                    /\ \A j \in 1..n : toks[i + j - 1].w = keywords[j]
                    /\ IsNumber(toks[i + n].w)}
    IN  IF hits = {} THEN NoMatch
        ELSE LET i == CHOOSE h \in hits : \A g \in hits : h <= g
             IN  [t |-> "match", group1 |-> toks[i + n].w,
                  span |-> <<toks[i].s, toks[i + n].e>>]

RECURSIVE SearchFirst(_, _, _)
\* `for pattern in patterns: match = re.search(...); if match: ...`
SearchFirst(toks, patterns, k) ==
    IF k > Len(patterns) THEN NoMatch
    ELSE LET match == SearchKeywordsNumber(toks, patterns[k])
         IN  IF match.t = "match" THEN match
             ELSE SearchFirst(toks, patterns, k + 1)

\* the patterns of each group, in the order of the source; a pattern whose
\* keyword is in no query of the model is left out
approx_patterns == << <<around>> >>
upper_patterns == << <<under>> >>
lower_patterns == << <<over>>, <<above>> >>
rating_patterns == << <<rated, above>> >>

\* r'between\s+(N)\s+(?:and|to)\s+(N)'
SearchRange(toks) ==
    LET hits == {i \in 1..(Len(toks) - 3) :
                    /\ toks[i].w = between
                    /\ IsNumber(toks[i + 1].w)
                    /\ toks[i + 2].w = and
                    /\ IsNumber(toks[i + 3].w)}
    IN  IF hits = {} THEN NoMatch
        ELSE LET i == CHOOSE h \in hits : \A g \in hits : h <= g
             IN  [t |-> "match", group1 |-> toks[i + 1].w,
                  group2 |-> toks[i + 3].w,
                  span |-> <<toks[i].s, toks[i + 3].e>>]

\* r'\b(highly|best)\s+rated\b'
SearchHighlyRated(toks) ==
    LET hits == {i \in 1..(Len(toks) - 1) :
                    toks[i].w = highly /\ toks[i + 1].w = rated}
    IN  IF hits = {} THEN NoMatch
        ELSE LET i == CHOOSE h \in hits : \A g \in hits : h <= g
             IN  [t |-> "match", span |-> <<toks[i].s, toks[i + 1].e>>]

SizeLetters == {"s", "m", "l", "x"}

\* SIZE_PATTERNS: r'\bsize\s+(\d+|[smlx]+)\b', then the size words (in no
\* query of the model), then r'\b([smlx]{1,3})\b(?=\s|$)'
SearchSize(toks) ==
    LET letters(word) == word # <<>> /\ \A i \in DOMAIN word : word[i] \in SizeLetters
        named == {i \in 1..(Len(toks) - 1) :
                    /\ toks[i].w = size
                    /\ (IsNumber(toks[i + 1].w) \/ letters(toks[i + 1].w))}
        codes == {i \in 1..Len(toks) : letters(toks[i].w) /\ Len(toks[i].w) <= 3}
    IN  IF named # {}
        THEN LET i == CHOOSE h \in named : \A g \in named : h <= g
             IN  [t |-> "match", group1 |-> toks[i + 1].w,
                  span |-> <<toks[i].s, toks[i + 1].e>>]
        ELSE IF codes # {}
        THEN LET i == CHOOSE h \in codes : \A g \in codes : h <= g
             IN  [t |-> "match", group1 |-> toks[i].w,
                  span |-> <<toks[i].s, toks[i].e>>]
        ELSE NoMatch

\* re.search(rf'\b{word}\b', query)
SearchWord(toks, word) == \E i \in DOMAIN toks : toks[i].w = word

\* COLORS, a Python set of str: the known colours that the model's queries
\* hold
COLORS == {red, blue}

\* the orders in which `for x in S` can visit a set of str: the order
\* follows the hashes of the strings, which are salted anew in every
\* process
IterationOrders(S) ==
    {order \in [1..Cardinality(S) -> S] :
        \A i, j \in DOMAIN order : order[i] = order[j] => i = j}

\* _extract_color(query) where `for color in COLORS` visits `colors`: the
\* first colour visited that the query holds
_extract_color(toks, colors) ==
    LET found == {k \in DOMAIN colors : SearchWord(toks, colors[k])}
    IN  IF found = {} THEN PyNone
        ELSE Str(colors[CHOOSE k \in found : \A j \in found : k <= j])

\* every re.search of extract_intent on the lower-cased query: what each
\* group captured (as the Matches above) and the span of each match;
\* `colors` is the order in which this process visits COLORS
SearchPatterns(query_lower, colors) ==
    LET toks == Tokenize(query_lower, 1)
        approx == SearchFirst(toks, approx_patterns, 1)
        range == SearchRange(toks)
        upper == SearchFirst(toks, upper_patterns, 1)
        lower == SearchFirst(toks, lower_patterns, 1)
        best == SearchHighlyRated(toks)
        rating == SearchFirst(toks, rating_patterns, 1)
        sized == SearchSize(toks)
        number(match) == IF match.t = "match" THEN ToFloat(match.group1) ELSE PyNone
        span(match) == IF match.t = "match" THEN match.span ELSE <<>>
    IN  [approx |-> number(approx),
         range_lo |-> number(range),
         range_hi |-> IF range.t = "match" THEN ToFloat(range.group2) ELSE PyNone,
         upper |-> number(upper),
         lower |-> number(lower),
         highly_rated |-> best.t = "match",
         rating |-> number(rating),
         category |-> IF SearchWord(toks, bags) THEN Str(bags) ELSE PyNone,
         brand |-> IF SearchWord(toks, nike) THEN Str(Nike) ELSE PyNone,
         color |-> _extract_color(toks, colors),
         size |-> IF sized.t = "match" THEN Str(sized.group1) ELSE PyNone,
         fuzzy |-> FALSE,
         approx_span |-> span(approx), range_span |-> span(range),
         upper_span |-> span(upper), lower_span |-> span(lower),
         best_span |-> span(best), rating_span |-> span(rating),
         size_span |-> span(sized)]

\* removal_spans of extract_intent, in the order the spans are appended:
\* those of _extract_price (dropped with its result when it returns
\* None), of _extract_rating and of _extract_size
removal_spans(m) ==
    LET one(sp) == IF sp = <<>> THEN <<>> ELSE <<sp>>
        price == IF m.approx_span # <<>> THEN <<m.approx_span>>
                 ELSE IF m.range_span # <<>> THEN <<m.range_span>>
                 ELSE IF Truthy(m.lower) \/ Truthy(m.upper)
                 THEN one(m.upper_span) \o one(m.lower_span)
                 ELSE <<>>
        rating == IF m.highly_rated THEN <<m.best_span>> ELSE one(m.rating_span)
    IN  price \o rating \o one(m.size_span)

\* tuple order of Python on (start, end)
SpanGreater(a, b) == a[1] > b[1] \/ (a[1] = b[1] /\ a[2] > b[2])

RECURSIVE SortReverse(_)
\* removal_spans.sort(reverse=True)
SortReverse(spans) ==
    IF spans = <<>> THEN <<>>
    ELSE LET i == CHOOSE k \in DOMAIN spans :
                      \A j \in DOMAIN spans : ~SpanGreater(spans[j], spans[k])
         IN  <<spans[i]>> \o SortReverse(SubSeq(spans, 1, i - 1)
                                          \o SubSeq(spans, i + 1, Len(spans)))

\* text[a:b] for 0 <= a, b: the indices are clipped to the length
Slice(text, a, b) ==
    SubSeq(text, (IF a > Len(text) THEN Len(text) ELSE a) + 1,
                 IF b > Len(text) THEN Len(text) ELSE b)

RECURSIVE RemoveSpans(_, _)
\* `for start, end in removal_spans: result = result[:start] + result[end:]`
RemoveSpans(result, spans) ==
    IF spans = <<>> THEN result
    ELSE RemoveSpans(Slice(result, 0, spans[1][1])
                     \o Slice(result, spans[1][2], Len(result)), Tail(spans))

\* text.strip()
Strip(text) ==
    LET solid == {i \in DOMAIN text : text[i] \notin Whitespace}
    IN  IF solid = {} THEN <<>>
        ELSE SubSeq(text, CHOOSE i \in solid : \A j \in solid : i <= j,
                          CHOOSE i \in solid : \A j \in solid : i >= j)

\* re.sub(r'\s+', ' ', text)
CollapseWhitespace(text) ==
    LET kept == {i \in DOMAIN text :
                    text[i] \notin Whitespace \/ i = 1 \/ text[i - 1] \notin Whitespace}
        nth(k) == CHOOSE i \in kept : Cardinality({j \in kept : j < i}) = k - 1
    IN  [k \in 1..Cardinality(kept) |->
            IF text[nth(k)] \in Whitespace THEN " " ELSE text[nth(k)]]

\* `if not result: result = "products"`
EmptyFallback(result) == IF result = <<>> THEN products ELSE result

_clean_semantic_query(text, spans) ==
    IF spans = <<>> THEN Strip(text)
    ELSE EmptyFallback(Strip(CollapseWhitespace(RemoveSpans(text, SortReverse(spans)))))

\* extract_intent(query): the semantic query and the constraints, in a
\* process that visits COLORS in the order `colors`
Intent(text, colors) ==
    LET m == SearchPatterns(Lower(text), colors)
    IN  [semantic_query |-> _clean_semantic_query(text, removal_spans(m)),
         constraints |-> extract_intent(m)]

\* the queries: up to MaxWords of these words, one space apart, as they
\* are or with a blank on both sides (so "" and the all-blank query)
QueryWords == {bags, red, blue, Nike, xl, size, under, over, around, between, and,
               rated, above, highly, <<"0">>, <<"3">>, <<"4">>}

RECURSIVE Join(_)
Join(words) ==
    IF words = <<>> THEN <<>>
    ELSE IF Len(words) = 1 THEN words[1]
    ELSE words[1] \o <<" ">> \o Join(Tail(words))

\* queries in which a word follows "rated above N": the rating pattern and
\* the price pattern `above\s+N` match the same text
RatedQueries ==
    {Join(<<rated, above, n, word>>) : n \in {<<"3">>, <<"4">>}, word \in {bags, red, Nike}}

Queries ==
    {pad \o Join(words) \o pad :
        pad \in {<<>>, <<" ">>},
        words \in UNION {[1..n -> QueryWords] : n \in 0..MaxWords}}
    \cup RatedQueries

\* ------------------------------------------------------ float arithmetic
\* Python floats are binary floating point, every operation rounded to the
\* nearest representable value (ties to even).  The model keeps the
\* rounding and shortens the significand to MantissaBits bits.  A float is
\* the integer n standing for n / 2^FractionBits; the values met here lie
\* in [2^-5, 2), so FractionBits = MantissaBits + 4 represents them all.
MantissaBits == 16

FractionBits == MantissaBits + 4

Pow2(k) == 2 ^ k

\* 1.0
One == Pow2(FractionBits)

\* num / den rounded to the nearest integer, ties to even
RoundHalfEven(num, den) ==
    LET q == num \div den
        r == num % den
    IN  IF 2 * r > den \/ (2 * r = den /\ q % 2 = 1) THEN q + 1 ELSE q

\* the binary exponent e of num / den: 2^e <= num / den < 2^(e + 1)
Exponent(num, den) ==
    CHOOSE e \in (-5)..1 :
        /\ Pow2(e + 5) * den <= 32 * num
        /\ 32 * num < Pow2(e + 6) * den

\* the float nearest to the rational num / den
Float(num, den) ==
    IF num = 0 THEN 0
    ELSE LET e == Exponent(num, den)
         IN  RoundHalfEven(num * Pow2(MantissaBits - 1 - e), den) * Pow2(e + 5)

\* the float nearest to n / 2^FractionBits: the rounding of an exact
\* sum or product of floats
Rounded(n) ==
    IF n = 0 THEN 0
    ELSE LET e == Exponent(n, One)
         IN  RoundHalfEven(n, Pow2(e + 5)) * Pow2(e + 5)

\* x + y and c * x on floats (c an int)
FAdd(x, y) == Rounded(x + y)
FMul(c, x) == Rounded(c * x)

FMin(x, y) == IF x <= y THEN x ELSE y

\* the number of ten-thousandths nearest to the float x
Decimal4(x) == RoundHalfEven(x * 625, Pow2(FractionBits - 4))

\* round(x, 4): the float nearest to the nearest multiple of 0.0001
Round4(x) == Float(Decimal4(x), 10000)

\* --------------------------------------------------- vector index, walk
MaxLimit == 2       \* the `limit` argument of search
MaxIndex == 3       \* vectors of the index beyond the leading absent ones
MaxClicks == 11     \* click events of one product

\* `candidate_multiplier = 10`
candidate_multiplier == 10

\* ids are positions in ProductStore; one more id is indexed but has no row
AbsentId == Len(ProductStore) + 1
\* the ids that vectors of the index carry
IndexedIds == {1, 2, 3, AbsentId}

\* (mutation of get_product_by_id: an id without a row yields a row)
get_product_by_id_NeverNone(pid) ==
    IF pid \in DOMAIN ProductStore THEN ProductStore[pid] ELSE ProductStore[1]

\* ProductRepository.get_product_by_id: the row, or None
get_product_by_id(pid) ==
    IF pid \in DOMAIN ProductStore THEN ProductStore[pid] ELSE PyNone

\* a distance is a float with a short binary fraction: the integer d
\* stands for d / DistanceUnit
DistanceUnit == 2048

\* L2 distances of the indexed vectors to the query embedding: 0.75, 3.75
DistanceValues == {3 * (DistanceUnit \div 4), 15 * (DistanceUnit \div 4)}

IndexEntries == [id : IndexedIds, distance : DistanceValues]

\* g indexed vectors at distance 0 whose product has no row
Ghosts(g) == [i \in 1..g |-> [id |-> AbsentId, distance |-> 0]]

\* the index as IndexFlatL2.search orders it for the query: nearest first
Indexes ==
    {Ghosts(g) \o tail :
        g \in {0, candidate_multiplier - 1},
        tail \in UNION {{t \in [1..n -> IndexEntries] :
                            \A i \in 1..(n - 1) : t[i].distance <= t[i + 1].distance} :
                        n \in 0..MaxIndex}}

\* VectorRepository.search(query_embedding, k)
vector_search(idx, k) ==
    IF Len(idx) = 0 THEN <<>>
    ELSE SubSeq(idx, 1, IF k <= Len(idx) THEN k ELSE Len(idx))

\* (mutation of similarity_score: the quotient is stored as it is)
similarity_score_Unrounded(distance) == Float(DistanceUnit, DistanceUnit + distance)

\* `round(1.0 / (1.0 + distance), 4)`; 1.0 + distance is exact
similarity_score(distance) == Round4(Float(DistanceUnit, DistanceUnit + distance))

SearchResult(pid, product, score) ==
    [id |-> pid, title |-> product.title, price |-> product.price,
     rating |-> product.rating, description |-> product.description,
     category |-> product.category, similarity_score |-> score,
     explanation |-> PyNone]

\* (mutation of Enough: the loop stops one result late)
Enough_OneLate(acc, lim) == Len(acc) > lim

\* `if len(results) >= limit: break`
Enough(acc, lim) == Len(acc) >= lim

RECURSIVE CollectResults(_, _, _, _)
\* step 5 of search: the loop over zip(product_ids, distances)
CollectResults(cands, filters, lim, acc) ==
    IF cands = <<>> \/ Enough(acc, lim) THEN acc
    ELSE LET pid == Head(cands).id
             product == get_product_by_id(pid)
         IN  IF product = PyNone
             THEN CollectResults(Tail(cands), filters, lim, acc)
             ELSE IF ~_passes_filters(product, filters)
             THEN CollectResults(Tail(cands), filters, lim, acc)
             ELSE CollectResults(Tail(cands), filters, lim,
                      Append(acc, SearchResult(pid, product,
                                     similarity_score(Head(cands).distance))))

\* ---------------------------------------------------------- apply_ranking
\* `self.alpha_click = 0.05`, `self.max_boost = 0.5`
alpha_click == Float(5, 100)
max_boost == Float(5, 10)

\* the click counts get_product_metrics finds for one product
ClickCounts == {0, MaxClicks - 1, MaxClicks}

\* get_product_metrics: only a product with a click event has an entry
get_product_metrics(clicks) ==
    [pid \in {p \in DOMAIN clicks : clicks[p] > 0} |-> [clicks |-> clicks[pid]]]

\* `metrics.get(result.id, {"clicks": 0}).get("clicks", 0)`
ClicksOf(product_metrics, pid) ==
    IF pid \in DOMAIN product_metrics THEN product_metrics[pid].clicks ELSE 0

\* what track_event was given for event e: a click on product 1 or 2, and
\* every third event a search event
EventContent(e) ==
    [event_type |-> IF e % 3 = 0 THEN "search" ELSE "click",
     payload |-> IF e % 3 = 0 THEN [query |-> bags]
                 ELSE [product_id |-> 2 - (e % 2)]]

\* (mutation of CountClicks: the product of a click is not compared)
CountClicks_AnyProduct(rows, pid) ==
    Cardinality({i \in DOMAIN rows : EventContent(rows[i]).event_type = "click"})

\* the scan of get_product_metrics over the events table: `SELECT payload
\* FROM events WHERE event_type = 'click'`, then `if pid and pid in
\* product_ids: metrics[pid]["clicks"] += 1`
CountClicks(rows, pid) ==
    Cardinality({i \in DOMAIN rows :
                    /\ EventContent(rows[i]).event_type = "click"
                    /\ EventContent(rows[i]).payload.product_id = pid})

\* (mutation of Boost: the boost is not capped)
Boost_NoCap(clicks) == FMul(clicks, alpha_click)

\* `boost = min(self.max_boost, clicks * self.alpha_click)`
Boost(clicks) == FMin(max_boost, FMul(clicks, alpha_click))

\* `result.similarity_score = round(old_score + boost, 4)`
NewScore(old_score, clicks) == Round4(FAdd(old_score, Boost(clicks)))

\* step 2 of apply_ranking: every result's score adjusted, order kept
AdjustScores(res, product_metrics) ==
    [i \in DOMAIN res |->
        [res[i] EXCEPT !.similarity_score =
            NewScore(@, ClicksOf(product_metrics, res[i].id))]]

\* (mutation of NextBest: among equal scores the last one goes first)
NextBest_LastOfEquals(res) ==
    CHOOSE i \in DOMAIN res :
        /\ \A j \in DOMAIN res : res[j].similarity_score <= res[i].similarity_score
        /\ \A j \in DOMAIN res :
               j > i => res[j].similarity_score < res[i].similarity_score

\* the element a stable descending sort puts first: the earliest of those
\* with the highest score
NextBest(res) ==
    CHOOSE i \in DOMAIN res :
        /\ \A j \in DOMAIN res : res[j].similarity_score <= res[i].similarity_score
        /\ \A j \in DOMAIN res :
               j < i => res[j].similarity_score < res[i].similarity_score

Without(res, i) == SubSeq(res, 1, i - 1) \o SubSeq(res, i + 1, Len(res))

RECURSIVE SortDescending(_)
\* `reranked_results.sort(key=lambda x: x.similarity_score, reverse=True)`
SortDescending(res) ==
    IF res = <<>> THEN <<>>
    ELSE <<res[NextBest(res)]>> \o SortDescending(Without(res, NextBest(res)))

\* (mutation of apply_ranking: the result with the lowest score is dropped)
apply_ranking_DropsLast(res, product_metrics) ==
    LET sorted == SortDescending(AdjustScores(res, product_metrics))
    IN  SubSeq(sorted, 1, IF Len(sorted) > 1 THEN Len(sorted) - 1 ELSE Len(sorted))

\* RankingService.apply_ranking(results)
apply_ranking(res, product_metrics) ==
    IF res = <<>> THEN res
    ELSE SortDescending(AdjustScores(res, product_metrics))

\* ---------------------------------------------------- generate_explanation
\* a key the dict does not have
Missing == [t |-> "missing"]

Dict(items) == [t |-> "dict", v |-> items]

Item == <<"I", "t", "e", "m">>
General == <<"G", "e", "n", "e", "r", "a", "l">>

\* (mutation of DictGet: a None value is replaced by the default too)
DictGet_NoneAsMissing(val, default) ==
    IF val.t \in {"missing", "none"} THEN default ELSE val

\* product.get(key, default)
DictGet(val, default) == IF val.t = "missing" THEN default ELSE val

RECURSIVE IntDigits(_)
IntDigits(n) ==
    IF n < 10 THEN <<Digits[n + 1]>>
    ELSE IntDigits(n \div 10) \o <<Digits[(n % 10) + 1]>>

\* str() of a float given in hundredths: 3.0, 4.5, 4.25
FloatRepr(n) ==
    IntDigits(n \div 100) \o <<".">> \o
        (IF n % 10 = 0 THEN <<Digits[((n % 100) \div 10) + 1]>>
         ELSE <<Digits[((n % 100) \div 10) + 1], Digits[(n % 10) + 1]>>)

\* str(value)
PyStr(val) ==
    IF val.t = "str" THEN val.v
    ELSE IF val.t = "none" THEN <<"N", "o", "n", "e">>
    ELSE FloatRepr(val.v)

\* a returned str: one of the five message texts with the values that its
\* f-string interpolates
Message(text, args) == [t |-> "str", text |-> text, args |-> args]

FallbackMessage == Message("Recommended based on semantic relevance.", <<>>)

\* `str(value).lower() in query.lower()`
AttributeMatches(item, q) == Contains(Lower(PyStr(item.value)), Lower(q))

\* the first item of attributes.items() that matches
FirstMatch(items, q) ==
    CHOOSE i \in DOMAIN items :
        /\ AttributeMatches(items[i], q)
        /\ \A j \in 1..(i - 1) : ~AttributeMatches(items[j], q)

\* (mutation of generate_explanation: the category is tested before the
\* attributes)
generate_explanation_CategoryFirst(q, product) ==
    IF product.t # "dict" THEN FallbackMessage
    ELSE LET title == DictGet(product.title, Str(Item))
             category == DictGet(product.category, Str(General))
             attributes == DictGet(product.attributes, Dict(<<>>))
         IN  IF title.t # "str" THEN FallbackMessage
             ELSE IF Contains(Lower(q), Lower(title.v))
             THEN Message("Direct match: The title explicitly contains '{query}'.", <<q>>)
             ELSE IF category.t # "str" THEN FallbackMessage
             ELSE IF Contains(Lower(q), Lower(category.v))
             THEN Message("This is a highly rated item in the {category} category.",
                          <<category.v>>)
             ELSE IF attributes.t # "dict" THEN FallbackMessage
             ELSE IF \E i \in DOMAIN attributes.v : AttributeMatches(attributes.v[i], q)
             THEN LET item == attributes.v[FirstMatch(attributes.v, q)]
                  IN  Message("Selected because it has the attribute {key}: {value}.",
                              <<item.key, PyStr(item.value)>>)
             ELSE Message("Relevant to your search for '{query}' based on semantic similarity.",
                          <<q>>)

\* generate_explanation(query, product, score): whatever raises inside the
\* try block (None.get, None.lower, None.items) ends in the except branch
generate_explanation(q, product) ==
    IF product.t # "dict" THEN FallbackMessage
    ELSE LET title == DictGet(product.title, Str(Item))
             category == DictGet(product.category, Str(General))
             attributes == DictGet(product.attributes, Dict(<<>>))
         IN  IF title.t # "str" THEN FallbackMessage
             ELSE IF Contains(Lower(q), Lower(title.v))
             THEN Message("Direct match: The title explicitly contains '{query}'.", <<q>>)
             ELSE IF attributes.t # "dict" THEN FallbackMessage
             ELSE IF \E i \in DOMAIN attributes.v : AttributeMatches(attributes.v[i], q)
             THEN LET item == attributes.v[FirstMatch(attributes.v, q)]
                  IN  Message("Selected because it has the attribute {key}: {value}.",
                              <<item.key, PyStr(item.value)>>)
             ELSE IF category.t # "str" THEN FallbackMessage
             ELSE IF Contains(Lower(q), Lower(category.v))
             THEN Message("This is a highly rated item in the {category} category.",
                          <<category.v>>)
             ELSE Message("Relevant to your search for '{query}' based on semantic similarity.",
                          <<q>>)

\* the dict enrich_results builds from a SearchResult
product_context(result) ==
    [t |-> "dict", title |-> Str(result.title), category |-> Str(result.category),
     description |-> Str(result.description), attributes |-> Dict(<<>>)]

\* enrich_results(results, query)
enrich_results(res, q) ==
    [i \in DOMAIN res |->
        [res[i] EXCEPT !.explanation = generate_explanation(q, product_context(res[i]))]]

\* ------------------------------------------------------------------ search
SearchInit ==
    /\ spc = "idle"
    /\ nlp_constraints = PyNone
    /\ ui_filters = PyNone
    /\ merged_filters = PyNone
    /\ passes = <<>>
    /\ query = <<>>
    /\ semantic_query = <<>>

\* extract_intent(query) on a query given as text
ExtractQuery ==
    /\ spc = "idle"
    /\ \E text \in Queries, colors \in IterationOrders(COLORS) :
         LET intent == Intent(text, colors)
         IN  /\ query' = text
             /\ semantic_query' = intent.semantic_query
             /\ nlp_constraints' = intent.constraints
    /\ spc' = "extracted"
    /\ UNCHANGED <<ui_filters, merged_filters, passes, evars, rvars>>

\* step 1 of search: intent = extract_intent(query)
ExtractIntent ==
    /\ spc = "idle"
    /\ \E m \in Matches : nlp_constraints' = extract_intent(MatchOf(m))
    /\ spc' = "extracted"
    /\ UNCHANGED <<ui_filters, merged_filters, passes, xvars, evars, rvars>>

\* step 2 of search: merged_filters = self._merge_filters(nlp_constraints, filters)
MergeFilters ==
    /\ spc = "extracted"
    /\ \E u \in CallerFilters \cup {PyNone} :
         /\ ui_filters' = u
         /\ merged_filters' = _merge_filters(nlp_constraints, u)
    /\ spc' = "merged"
    /\ UNCHANGED <<nlp_constraints, passes, xvars, evars, rvars>>

\* step 5 of search: the filter predicate on the stored products
ApplyFilters ==
    /\ spc = "merged"
    /\ passes' = [i \in DOMAIN ProductStore |->
                    _passes_filters(ProductStore[i], merged_filters)]
    /\ spc' = "filtered"
    /\ UNCHANGED <<nlp_constraints, ui_filters, merged_filters, xvars, evars, rvars>>

\* -------------------------------------------------- search, steps 4 to 7
RetrieveInit ==
    /\ rpc = "idle"
    /\ limit = 0
    /\ index = <<>>
    /\ candidates = <<>>
    /\ results = <<>>
    /\ metrics = <<>>
    /\ adjusted = <<>>
    /\ ranked = <<>>
    /\ returned = [status |-> "pending", results |-> <<>>]
    /\ explained = PyNone

bag == <<"b", "a", "g">>

RetrieveQueries == {bag, Join(<<red, under, <<"3">>>>)}

RetrieveFilters == {PyNone, [DefaultFilters EXCEPT !.category = Str(Books)]}

\* steps 1 to 4 of search, with the early `return []` on no candidates
VectorSearch ==
    /\ rpc = "idle"
    /\ \E text \in RetrieveQueries, u \in RetrieveFilters,
          colors \in IterationOrders(COLORS) :
         LET intent == Intent(text, colors)
             merged == _merge_filters(intent.constraints, u)
         IN  /\ query' = text
             /\ semantic_query' = intent.semantic_query
             /\ nlp_constraints' = intent.constraints
             /\ ui_filters' = u
             /\ merged_filters' = merged
             /\ \E lim \in 1..MaxLimit, idx \in Indexes :
                  LET fetch_k == lim * candidate_multiplier
                      found == vector_search(idx, fetch_k)
                  IN  /\ limit' = lim
                      /\ index' = idx
                      /\ candidates' = found
                      /\ IF found = <<>>
                         THEN /\ returned' = [status |-> "returned", results |-> <<>>]
                              /\ rpc' = "done"
                         ELSE /\ UNCHANGED returned
                              /\ rpc' = "searched"
    /\ UNCHANGED <<spc, passes, results, metrics, adjusted, ranked, explained, evars>>

\* distances of two indexed vectors: 0, next to 0, 0.5, 1, next to 1,
\* 3, next to 3, 3.75
ScoreDistances ==
    {0, 1, 2, DistanceUnit \div 2, DistanceUnit, DistanceUnit + 1,
     3 * DistanceUnit, 3 * DistanceUnit + 1, 3 * DistanceUnit + 2,
     15 * (DistanceUnit \div 4)}

\* an index of two products with rows, nearest first
ScoreIndexes ==
    {idx \in [1..2 -> [id : {1, 2}, distance : ScoreDistances]] :
        /\ idx[1].id = 1 /\ idx[2].id = 2
        /\ idx[1].distance <= idx[2].distance}

\* steps 1 to 4 of search for the query "bag" without caller filters, on
\* an index of two vectors
ScoreSearch ==
    /\ rpc = "idle"
    /\ \E colors \in IterationOrders(COLORS) :
         LET intent == Intent(bag, colors)
             merged == _merge_filters(intent.constraints, PyNone)
         IN  /\ query' = bag
             /\ semantic_query' = intent.semantic_query
             /\ nlp_constraints' = intent.constraints
             /\ ui_filters' = PyNone
             /\ merged_filters' = merged
             /\ \E lim \in 1..MaxLimit, idx \in ScoreIndexes :
                  LET fetch_k == lim * candidate_multiplier
                      found == vector_search(idx, fetch_k)
                  IN  /\ limit' = lim
                      /\ index' = idx
                      /\ candidates' = found
                      /\ IF found = <<>>
                         THEN /\ returned' = [status |-> "returned", results |-> <<>>]
                              /\ rpc' = "done"
                         ELSE /\ UNCHANGED returned
                              /\ rpc' = "searched"
    /\ UNCHANGED <<spc, passes, results, metrics, adjusted, ranked, explained, evars>>

\* step 5 of search; with no result, steps 6 and 7 are skipped
RetrieveProducts ==
    /\ rpc = "searched"
    /\ LET collected == CollectResults(candidates, merged_filters, limit, <<>>)
       IN  /\ results' = collected
           /\ IF collected = <<>>
              THEN /\ returned' = [status |-> "returned", results |-> <<>>]
                   /\ rpc' = "done"
              ELSE /\ UNCHANGED returned
                   /\ rpc' = "collected"
    /\ UNCHANGED <<limit, index, candidates, metrics, adjusted, ranked, explained,
                   svars, evars>>

\* step 6 of search: ranking_service.apply_ranking(results)
ApplyRanking ==
    /\ rpc = "collected"
    /\ \E clicks \in [{results[i].id : i \in DOMAIN results} -> ClickCounts] :
         LET product_metrics == get_product_metrics(clicks)
         IN  /\ metrics' = product_metrics
             /\ adjusted' = AdjustScores(results, product_metrics)
             /\ ranked' = apply_ranking(results, product_metrics)
    /\ rpc' = "ranked"
    /\ UNCHANGED <<limit, index, candidates, results, returned, explained,
                   svars, evars>>

\* step 7 of search: orchestrator.enrich_results(results, query), and return
EnrichResults ==
    /\ rpc = "ranked"
    /\ returned' = [status |-> "returned", results |-> enrich_results(ranked, query)]
    /\ rpc' = "done"
    /\ UNCHANGED <<limit, index, candidates, results, metrics, adjusted, ranked,
                   explained, svars, evars>>

color == <<"c", "o", "l", "o", "r">>

ExplainQueries ==
    {<<>>, red, bags, Item, General,
     Join(<<red, bags>>), Join(<<<<"n", "o", "n", "e">>, xl>>),
     Join(<<over, <<"3", ".", "0">>>>)}

ExplainAttributes ==
    {Missing, PyNone, Dict(<<>>),
     Dict(<<[key |-> color, value |-> Str(<<"R", "e", "d">>)]>>),
     Dict(<<[key |-> size, value |-> PyNone],
            [key |-> color, value |-> Str(red)]>>),
     Dict(<<[key |-> rated, value |-> Num(300)]>>)}

\* the product argument: None, or a dict whose title, category and
\* attributes are each missing, None or a value
ExplainProducts ==
    {PyNone} \cup
    {[t |-> "dict", title |-> ti, category |-> ca, attributes |-> at] :
        ti \in {Missing, PyNone, Str(<<"R", "e", "d", " ", "b", "a", "g">>)},
        ca \in {Missing, PyNone, Str(<<"R", "e", "d", " ", "B", "a", "g", "s">>)},
        at \in ExplainAttributes}

\* one call of generate_explanation on its own
GenerateExplanation ==
    /\ rpc = "idle"
    /\ \E q \in ExplainQueries, product \in ExplainProducts :
         explained' = [t |-> "call", query |-> q, product |-> product,
                       explanation |-> generate_explanation(q, product)]
    /\ rpc' = "explained"
    /\ UNCHANGED <<limit, index, candidates, results, metrics, adjusted, ranked,
                   returned, svars, evars>>

\* ----------------------------------------------------------- specification
Init == EventInit /\ SearchInit /\ RetrieveInit

WorkerStep ==
    \E t \in TaskIds :
        \/ WorkerStart(t)
        \/ WorkerGetResume(t)
        \/ WorkerSaveResume(t)
        \/ WorkerCancelled(t)

ThreadStep == \E e \in Events : SaveEvent(e)

StopStep == StopJoinResume \/ StopAwaitResume

Next ==
    \/ StartWorker
    \/ TrackEvent
    \/ StopCall
    \/ WorkerStep
    \/ ThreadStep
    \/ StopStep

Spec == Init /\ [][Next]_vars

\* the event loop runs every runnable coroutine and the pool runs every
\* submitted call; callers of start/track/stop are under no obligation
FairSpec ==
    /\ Spec
    /\ WF_vars(WorkerStep)
    /\ WF_vars(ThreadStep)
    /\ WF_vars(StopStep)

\* one search call, from the query to the filtered candidates
SearchNext ==
    \/ ExtractIntent
    \/ MergeFilters
    \/ ApplyFilters

SearchSpec == Init /\ [][SearchNext]_vars

\* the extractor alone, on queries given as text
ExtractNext == ExtractQuery

ExtractSpec == Init /\ [][ExtractNext]_vars

\* one search call through retrieval, ranking and explanation, and
\* generate_explanation called on its own
RetrieveNext ==
    \/ VectorSearch
    \/ RetrieveProducts
    \/ ApplyRanking
    \/ EnrichResults
    \/ GenerateExplanation

RetrieveSpec == Init /\ [][RetrieveNext]_vars

\* ------------------------------------------ searches and the events table
\* the INSERT of EventRepository.save_event, whichever worker task called
\* it: one more row
InsertRow ==
    /\ \E e \in Events \ Range(store) : store' = Append(store, e)
    /\ UNCHANGED <<is_running, worker_task, tasks, queue, unfinished, threads,
                   failed, total_events_processed, offered, dropped, stopPc,
                   stopAwaited, stops, pendingAtStop, lastOp, svars, rvars>>

\* an index of products 1 and 2, nearest first
BehaviorIndexes ==
    {idx \in [1..2 -> IndexEntries] :
        /\ idx[1].id = 1 /\ idx[2].id = 2
        /\ idx[1].distance <= idx[2].distance}

\* steps 1 to 4 of a search for "bag" without caller filters; what earlier
\* calls left in results, metrics, adjusted, ranked and returned stays
\* until this call reaches the step that sets it
BehaviorSearch ==
    /\ rpc = "idle"
    /\ \E colors \in IterationOrders(COLORS) :
         LET intent == Intent(bag, colors)
             merged == _merge_filters(intent.constraints, PyNone)
         IN  /\ query' = bag
             /\ semantic_query' = intent.semantic_query
             /\ nlp_constraints' = intent.constraints
             /\ ui_filters' = PyNone
             /\ merged_filters' = merged
             /\ \E lim \in 1..MaxLimit, idx \in BehaviorIndexes :
                  LET fetch_k == lim * candidate_multiplier
                      found == vector_search(idx, fetch_k)
                  IN  /\ limit' = lim
                      /\ index' = idx
                      /\ candidates' = found
                      /\ IF found = <<>>
                         THEN /\ returned' = [status |-> "returned", results |-> <<>>]
                              /\ rpc' = "done"
                         ELSE /\ UNCHANGED returned
                              /\ rpc' = "searched"
    /\ UNCHANGED <<spc, passes, results, metrics, adjusted, ranked, explained, evars>>

\* step 6 of search, get_product_metrics reading the events table
RankFromLog ==
    /\ rpc = "collected"
    /\ LET clicks == [pid \in {results[i].id : i \in DOMAIN results} |->
                         CountClicks(store, pid)]
           product_metrics == get_product_metrics(clicks)
       IN  /\ metrics' = product_metrics
           /\ adjusted' = AdjustScores(results, product_metrics)
           /\ ranked' = apply_ranking(results, product_metrics)
    /\ rpc' = "ranked"
    /\ UNCHANGED <<limit, index, candidates, results, returned, explained,
                   svars, evars>>

\* the call has returned; the next call of search may begin
NextSearch ==
    /\ rpc = "done"
    /\ rpc' = "idle"
    /\ UNCHANGED <<limit, index, candidates, results, metrics, adjusted, ranked,
                   returned, explained, svars, evars>>

\* searches one after another while events are persisted
BehaviorNext ==
    \/ InsertRow
    \/ BehaviorSearch
    \/ RetrieveProducts
    \/ RankFromLog
    \/ EnrichResults
    \/ NextSearch

BehaviorSpec == Init /\ [][BehaviorNext]_vars

\* -------------------------------------------- the event loop and a search
\* `async def search_products` calls search_service.search(...) without an
\* await: from its first step to its return the handler holds the event
\* loop, which runs no other coroutine meanwhile
LoopFree == rpc \in {"idle", "done"}

\* the /event handler and the consumer tasks are coroutines of that loop
LoopTrackEvent == LoopFree /\ TrackEvent

LoopWorkerStep == LoopFree /\ WorkerStep

\* the service with one search request: coroutines run when the loop is
\* free, the thread pool runs on its own, the search runs its steps
LoopNext ==
    \/ LoopFree /\ StartWorker
    \/ LoopTrackEvent
    \/ LoopFree /\ StopCall
    \/ LoopWorkerStep
    \/ LoopFree /\ StopStep
    \/ ThreadStep
    \/ BehaviorSearch
    \/ RetrieveProducts
    \/ RankFromLog
    \/ EnrichResults

LoopSpec == Init /\ [][LoopNext]_vars

\* one search call up to the conversion of distances to scores
ScoreNext ==
    \/ ScoreSearch
    \/ RetrieveProducts

ScoreSpec == Init /\ [][ScoreNext]_vars

TypeOK ==
    /\ is_running \in BOOLEAN
    /\ worker_task \in 0..MaxTasks
    /\ unfinished \in 0..MaxEvents
    /\ threads \subseteq Events
    /\ stopPc \in {"idle", "join", "join_woken", "await", "returned"}

\* =============================================================\* Properties of the Event Worker
\* =============================================================
\* consumer tasks that can still take events off the queue
Consumers == {t \in TaskIds : Alive(t) /\ ~tasks[t].cancel}

Persisted == Range(store)

\* C1: once stop() on a running worker has cancelled the consumer (or has
\* returned), every event that was enqueued before the call and was not
\* yet persisted then has been written to the Behavior Store (or its write
\* failed).
C1_StopDrainsPending ==
    stopPc \in {"await", "returned"} => pendingAtStop \subseteq (Persisted \cup failed)

\* C2: stop() always eventually returns: every call that is waiting for
\* the queue to drain or for the consumer to end leads to its return.
C2_StopReturns ==
    (stopPc \in {"join", "join_woken", "await"}) ~> (stopPc = "returned")

\* C3: at most one consumer task is alive at any time, and once stop() has
\* returned no consumer that the service does not track is still consuming.
C3_SingleConsumer ==
    /\ Cardinality(Consumers) <= 1
    /\ stopPc = "returned" => \A t \in Consumers : t = worker_task

\* a capacity below the number of events the producers offer, so that
\* the producers can fill the queue
QueueCapacity == MaxEvents - 1

\* C4: the ingestion queue never holds more events than its configured
\* capacity (an enqueue on a full queue drops the event instead).
C4_QueueWithinCapacity == Len(queue) <= QueueCapacity

Occurrences(e) == Cardinality({i \in DOMAIN store : store[i] = e})

\* C5: an accepted event is never written to the Behavior Store twice,
\* and while the worker keeps running (no stop) and the write does not
\* fail it is eventually written.
C5_PersistedExactlyOnce ==
    /\ [](\A e \in Events : Occurrences(e) <= 1)
    /\ \A e \in Events :
         (e \in Accepted /\ is_running /\ stops = 0)
            ~> (e \in Persisted \/ e \in failed \/ stops > 0)

C5_Witness ==
    /\ stops = 0
    /\ is_running
    /\ Len(store) >= 2
    /\ \A e \in Persisted : Occurrences(e) = 1

\* C6: track_event can always be called and returns (whatever the worker
\* and the store are doing), a failed store write never ends the consumer
\* task (only stop() does), and while the worker keeps running an event
\* queued after a failed one is eventually persisted.
C6_FailureAbsorbed ==
    /\ [](offered < MaxEvents => ENABLED TrackEvent)
    /\ [](\A t \in TaskIds : tasks[t].pc = "done" => stops > 0)
    /\ \A f, e \in Events :
         (f \in failed /\ f < e /\ e \in Accepted /\ is_running /\ stops = 0)
            ~> (e \in Persisted \/ e \in failed \/ stops > 0)

C6_Witness ==
    /\ stops = 0
    /\ \E f \in failed : \E e \in Persisted : f < e
    /\ \E t \in TaskIds : Alive(t)
    /\ lastOp = "accepted"

\* =================================================================
\* Properties of the filter merger and the filter predicate
\* =================================================================

Merged == spc \in {"merged", "filtered"}

HasCaller == ui_filters.t # "none"

\* the caller's value of a field (None when no SearchFilters was sent)
Caller(f) == IF HasCaller THEN ui_filters[f] ELSE PyNone

\* empty: absent, a blank or whitespace-only string, or numeric zero
CallerEmpty(val) ==
    \/ val.t = "none"
    \/ val.t = "str" /\ (\A i \in DOMAIN val.v : val.v[i] = " ")
    \/ val.t = "float" /\ val.v = 0

\* the caller's price_max: the primary field, else the legacy alias
CallerPriceMax ==
    IF ~CallerEmpty(Caller("price_max")) THEN Caller("price_max")
    ELSE Caller("max_price")

CallerHasPrice == ~CallerEmpty(Caller("price_min")) \/ ~CallerEmpty(CallerPriceMax)

\* the pair after substitution of the caller's values
SubstMin == IF ~CallerEmpty(Caller("price_min")) THEN Caller("price_min")
            ELSE nlp_constraints.price_min
SubstMax == IF ~CallerEmpty(CallerPriceMax) THEN CallerPriceMax
            ELSE nlp_constraints.price_max

Clash ==
    /\ CallerHasPrice
    /\ ~IsNone(SubstMin)
    /\ ~IsNone(SubstMax)
    /\ SubstMin.v > SubstMax.v

FieldRule(callerVal, queryVal, mergedVal) ==
    IF ~CallerEmpty(callerVal) THEN PyEq(mergedVal, callerVal)
    ELSE PyEq(mergedVal, queryVal)

PriceRule(callerVal, queryVal, mergedVal) ==
    IF ~CallerEmpty(callerVal) THEN PyEq(mergedVal, callerVal)
    ELSE IF Clash THEN IsNone(mergedVal)
    ELSE PyEq(mergedVal, queryVal)

CallerValueFields == {"price_min", "price_max", "max_price", "min_rating",
                      "category", "brand", "color", "size"}

AllCallerEmpty ==
    \/ ~HasCaller
    \/ /\ \A f \in CallerValueFields : CallerEmpty(ui_filters[f])
       /\ \A f \in {"approximate_price", "fuzzy_price", "conflict"} :
             IsNone(ui_filters[f])

\* C8: pass-through law: when every caller field is empty (or there are
\* no caller filters) the merge output equals the extracted Constraints
\* field by field, the three flags included.
C8_PassThrough ==
    (Merged /\ AllCallerEmpty) =>
        /\ PyEq(merged_filters.price_min, nlp_constraints.price_min)
        /\ PyEq(merged_filters.price_max, nlp_constraints.price_max)
        /\ PyEq(merged_filters.min_rating, nlp_constraints.rating_min)
        /\ PyEq(merged_filters.category, nlp_constraints.category)
        /\ PyEq(merged_filters.brand, nlp_constraints.brand)
        /\ PyEq(merged_filters.color, nlp_constraints.color)
        /\ PyEq(merged_filters.size, nlp_constraints.size)
        /\ merged_filters.approximate_price = nlp_constraints.approximate_price
        /\ merged_filters.fuzzy_price = nlp_constraints.fuzzy_price
        /\ merged_filters.conflict = nlp_constraints.conflict

\* C9: a non-empty caller price bound appears unchanged in the merged
\* output; when the caller supplied a price bound and the substituted
\* pair has price_min > price_max, the bound taken from the query is the
\* one cleared; so with a caller price bound the merged conflict flag is
\* true only when both contradictory bounds came from the caller.
C9_CallerBoundsKept ==
    Merged =>
        /\ ~CallerEmpty(Caller("price_min"))
              => PyEq(merged_filters.price_min, Caller("price_min"))
        /\ ~CallerEmpty(CallerPriceMax)
              => PyEq(merged_filters.price_max, CallerPriceMax)
        /\ Clash =>
              /\ CallerEmpty(Caller("price_min")) => IsNone(merged_filters.price_min)
              /\ CallerEmpty(CallerPriceMax) => IsNone(merged_filters.price_max)
        /\ (CallerHasPrice /\ merged_filters.conflict) =>
              /\ ~CallerEmpty(Caller("price_min"))
              /\ ~CallerEmpty(CallerPriceMax)
              /\ Caller("price_min").v > CallerPriceMax.v

\* the caller's price_max contradicts the query's price_min, which is cleared
C9_Witness ==
    /\ Merged
    /\ Clash
    /\ CallerEmpty(Caller("price_min"))
    /\ ~IsNone(nlp_constraints.price_min)
    /\ IsNone(merged_filters.price_min)
    /\ PyEq(merged_filters.price_max, CallerPriceMax)
    /\ ~merged_filters.conflict

\* C10: fail-open on conflict: a query whose extracted lower and upper
\* price bounds are both present with min > max has conflict = true in its
\* Constraints, and whenever the merged conflict flag is true the filter
\* predicate accepts every product.
C10_FailOpenOnConflict ==
    /\ spc # "idle" =>
          ((/\ ~IsNone(nlp_constraints.price_min)
            /\ ~IsNone(nlp_constraints.price_max)
            /\ nlp_constraints.price_min.v > nlp_constraints.price_max.v)
              => nlp_constraints.conflict)
    /\ (spc = "filtered" /\ merged_filters.conflict) =>
          \A i \in DOMAIN passes : passes[i]

\* C11: when the merged conflict flag is false, every product the filter
\* predicate accepts satisfies every set bound, whatever the bound's value:
\* price >= price_min, price <= price_max, rating >= min_rating, and a
\* product without a price is rejected whenever a price bound is set.
C11_AcceptedWithinBounds ==
    (spc = "filtered" /\ ~merged_filters.conflict) =>
        \A i \in DOMAIN ProductStore :
            passes[i] =>
                /\ ~IsNone(merged_filters.price_min) =>
                      /\ ~IsNone(ProductStore[i].price)
                      /\ ProductStore[i].price.v >= merged_filters.price_min.v
                /\ ~IsNone(merged_filters.price_max) =>
                      /\ ~IsNone(ProductStore[i].price)
                      /\ ProductStore[i].price.v <= merged_filters.price_max.v
                /\ ~IsNone(merged_filters.min_rating) =>
                      /\ ~IsNone(ProductStore[i].rating)
                      /\ ProductStore[i].rating.v >= merged_filters.min_rating.v

\* C19: a caller can clear a query-derived rating filter: with caller
\* filters whose min_rating is explicitly None and a query that yields
\* rating_min, the merged min_rating is None.
C19_CallerClearsRating ==
    (/\ Merged
     /\ HasCaller
     /\ IsNone(ui_filters.min_rating)
     /\ ~IsNone(nlp_constraints.rating_min))
        => IsNone(merged_filters.min_rating)

\* the caller's non-empty category is not contained in the product's
CallerCategoryMismatch(product) ==
    /\ ~CallerEmpty(Caller("category"))
    /\ ~Contains(Lower(Caller("category").v), Lower(product.category))

\* C20: with conflict false, the category test rejects a product exactly
\* when the caller supplied a non-empty category whose lower-cased value
\* is not a substring of the product's lower-cased category (also when
\* that category equals the one derived from the query); a product the
\* test rejects is not accepted, and a category that came from the query
\* only changes no product's outcome.
C20_OnlyCallerCategoryFilters ==
    (spc = "filtered" /\ ~merged_filters.conflict) =>
        \A i \in DOMAIN ProductStore :
            /\ CategoryMismatch(ProductStore[i], merged_filters)
                  <=> CallerCategoryMismatch(ProductStore[i])
            /\ CallerCategoryMismatch(ProductStore[i]) => ~passes[i]
            /\ CallerEmpty(Caller("category")) =>
                  passes[i] = _passes_filters(ProductStore[i],
                                 [merged_filters EXCEPT !.category = PyNone])

\* the caller's category equals the query's and rejects a product, while
\* another query-derived category alone would have rejected nothing
C20_Witness ==
    /\ spc = "filtered"
    /\ ~merged_filters.conflict
    /\ ~CallerEmpty(Caller("category"))
    /\ PyEq(Caller("category"), nlp_constraints.category)
    /\ \E i \in DOMAIN ProductStore :
          CallerCategoryMismatch(ProductStore[i]) /\ ~passes[i]
    /\ \E i \in DOMAIN ProductStore : passes[i]

\* =================================================================
\* Properties of the intent extractor on text
\* =================================================================

\* the spans of the matches extract_intent found in a query (they are the
\* same in every order of COLORS)
SearchedSpans(text) ==
    LET m == SearchPatterns(Lower(text), CHOOSE colors \in IterationOrders(COLORS) : TRUE)
        price == IF m.approx_span # <<>> THEN {m.approx_span}
                 ELSE IF m.range_span # <<>> THEN {m.range_span}
                 ELSE {m.upper_span, m.lower_span}
        rating == IF m.highly_rated THEN {m.best_span} ELSE {m.rating_span}
    IN  (price \cup rating \cup {m.size_span}) \ {<<>>}

\* the characters of text at the positions in keep, in order
Pick(text, keep) ==
    LET nth(k) == CHOOSE i \in keep : Cardinality({j \in keep : j < i}) = k - 1
    IN  [k \in 1..Cardinality(keep) |-> text[nth(k)]]

\* the non-blank characters of a text
Solid(text) == Pick(text, {i \in DOMAIN text : text[i] \notin Whitespace})

\* the non-blank characters of a query outside every matched fragment
Residue(text) ==
    Pick(text, {i \in DOMAIN text :
                   /\ text[i] \notin Whitespace
                   /\ \A sp \in SearchedSpans(text) : ~(sp[1] < i /\ i <= sp[2])})

RECURSIVE IsSubsequence(_, _)
IsSubsequence(a, b) ==
    IF a = <<>> THEN TRUE
    ELSE IF b = <<>> THEN FALSE
    ELSE IF a[1] = b[1] THEN IsSubsequence(Tail(a), Tail(b))
    ELSE IsSubsequence(a, Tail(b))

\* C18: for every query, the empty and the all-blank one included, the
\* semantic query is never empty (it falls back to "products") and keeps
\* no character of a fragment matched by a price, rating or size pattern:
\* what it keeps is, in order, text of the query outside those fragments.
C18_SemanticQueryClean ==
    spc = "extracted" =>
        /\ semantic_query # <<>>
        /\ \/ semantic_query = products
           \/ IsSubsequence(Solid(semantic_query), Residue(query))

\* =================================================================
\* Properties of retrieval, ranking and explanation
\* =================================================================

\* the limit x 10 nearest vectors of the index
NearestCandidates ==
    SubSeq(index, 1, IF limit * 10 <= Len(index) THEN limit * 10 ELSE Len(index))

\* the candidate's product has a row and the row passes the predicate
Qualifies(c) ==
    /\ c.id \in DOMAIN ProductStore
    /\ _passes_filters(ProductStore[c.id], merged_filters)

QualifyingPositions ==
    {i \in DOMAIN NearestCandidates : Qualifies(NearestCandidates[i])}

\* the first `limit` of them
FirstQualifying ==
    LET qualifying == QualifyingPositions
    IN  {i \in qualifying : Cardinality({j \in qualifying : j < i}) < limit}

\* C12: search returns at most `limit` results; they are exactly the first
\* `limit` candidates, in ascending-distance order among the limit x 10
\* nearest, whose product has a row and passes the filter predicate
C12_FirstQualifyingReturned ==
    rpc = "done" =>
        LET first == FirstQualifying
        IN  /\ returned.status = "returned"
            /\ Len(returned.results) <= limit
            /\ Len(returned.results) = Cardinality(first)
            /\ {returned.results[i].id : i \in DOMAIN returned.results}
                 = {NearestCandidates[i].id : i \in first}
            /\ \A i \in DOMAIN results :
                   LET pos == CHOOSE p \in first :
                                  Cardinality({j \in first : j < p}) = i - 1
                   IN  results[i].id = NearestCandidates[pos].id

\* the limit is reached after a candidate without a row was passed over,
\* and a farther qualifying candidate is left out
C12_Witness ==
    /\ rpc = "done"
    /\ Len(returned.results) = limit
    /\ Cardinality(QualifyingPositions) > limit
    /\ \E i \in DOMAIN NearestCandidates, j \in FirstQualifying :
           i < j /\ NearestCandidates[i].id \notin DOMAIN ProductStore

\* C13: with no candidate, or with every candidate rejected by the
\* predicate or without a row, search returns the empty list
C13_EmptyIsNotAnError ==
    (rpc = "done" /\ \A i \in DOMAIN NearestCandidates : ~Qualifies(NearestCandidates[i]))
        => returned = [status |-> "returned", results |-> <<>>]

\* candidates were found; one has no row, another is rejected by the predicate
C13_Witness ==
    /\ rpc = "done"
    /\ returned.results = <<>>
    /\ \E i \in DOMAIN candidates : candidates[i].id \notin DOMAIN ProductStore
    /\ \E i \in DOMAIN candidates :
           /\ candidates[i].id \in DOMAIN ProductStore
           /\ ~_passes_filters(ProductStore[candidates[i].id], merged_filters)

\* ranking has run on the results of this search
Ranked == rpc \in {"ranked", "done"} /\ adjusted # <<>>

\* C14 as stated: old_score <= new_score <= old_score + max_boost for
\* every result, and new_score = old_score with zero or missing clicks
C14_BoostWithinMaxBoost ==
    Ranked =>
        \A i \in DOMAIN results :
            LET old_score == results[i].similarity_score
                new_score == adjusted[i].similarity_score
            IN  /\ old_score <= new_score
                /\ new_score <= old_score + Pow2(FractionBits - 1)
                /\ results[i].id \notin DOMAIN metrics => new_score = old_score

\* C14 amended: ranking never lowers a score; read at the four decimals
\* they are rounded to, new_score - old_score <= max_boost (0.5000); with
\* zero or missing clicks new_score = old_score
C14_BoostWithinMaxBoostAtFourDecimals ==
    Ranked =>
        \A i \in DOMAIN results :
            LET old_score == results[i].similarity_score
                new_score == adjusted[i].similarity_score
            IN  /\ old_score <= new_score
                /\ Decimal4(new_score) - Decimal4(old_score) <= 5000
                /\ results[i].id \notin DOMAIN metrics => new_score = old_score

\* one result has more clicks than the cap pays for, another has none
C14_Witness ==
    /\ Ranked
    /\ \E i \in DOMAIN results :
           /\ results[i].id \in DOMAIN metrics
           /\ metrics[results[i].id].clicks * 5 > 50
           /\ Decimal4(adjusted[i].similarity_score)
                = Decimal4(results[i].similarity_score) + 5000
    /\ \E i \in DOMAIN results : results[i].id \notin DOMAIN metrics

\* the results of seq with adjusted score s, in their order
WithScore(seq, s) ==
    LET Same(r) == r.similarity_score = s
    IN  SelectSeq(seq, Same)

\* C15: the list ranking returns, and search after it, is non-increasing
\* in adjusted score, and results of equal adjusted score keep the
\* relative order they had before ranking
C15_SortedStable ==
    Ranked =>
        /\ Len(ranked) = Len(adjusted)
        /\ \A i, j \in DOMAIN ranked :
               i < j => ranked[i].similarity_score >= ranked[j].similarity_score
        /\ \A i \in DOMAIN adjusted :
               WithScore(ranked, adjusted[i].similarity_score)
                 = WithScore(adjusted, adjusted[i].similarity_score)
        /\ rpc = "done" =>
               /\ Len(returned.results) = Len(ranked)
               /\ \A i \in DOMAIN ranked :
                      [returned.results[i] EXCEPT !.explanation = PyNone] = ranked[i]

\* two different products end with the same adjusted score
C15_Witness ==
    /\ rpc = "done"
    /\ Len(adjusted) = 2
    /\ adjusted[1].id # adjusted[2].id
    /\ adjusted[1].similarity_score = adjusted[2].similarity_score
    /\ ClicksOf(metrics, adjusted[1].id) # ClicksOf(metrics, adjusted[2].id)

\* one generate_explanation call has returned
Explained == rpc = "explained"

\* the record has a title and a category that are text and attributes
\* that are a mapping
WellFormed(product) ==
    /\ product.t = "dict"
    /\ product.title.t = "str"
    /\ product.category.t = "str"
    /\ product.attributes.t = "dict"

\* the conditions of the cascade, on a well-formed record
InTitle(q, product) == Contains(Lower(q), Lower(product.title.v))
InAttributes(q, product) ==
    \E i \in DOMAIN product.attributes.v :
        Contains(Lower(PyStr(product.attributes.v[i].value)), Lower(q))
InCategory(q, product) == Contains(Lower(q), Lower(product.category.v))

\* C16: on a record with title, category and attributes, the message is
\* the direct-match one when the query is in the title; otherwise the
\* attribute one, naming an attribute whose value is in the query, when
\* there is one; otherwise the category one when the query is in the
\* category; otherwise the semantic-similarity one
C16_FirstMatchWins ==
    (Explained /\ WellFormed(explained.product)) =>
        LET q == explained.query
            product == explained.product
            message == explained.explanation
        IN  IF InTitle(q, product)
            THEN message = Message("Direct match: The title explicitly contains '{query}'.", <<q>>)
            ELSE IF InAttributes(q, product)
            THEN /\ message.text = "Selected because it has the attribute {key}: {value}."
                 /\ \E i \in DOMAIN product.attributes.v :
                        /\ Contains(Lower(PyStr(product.attributes.v[i].value)), Lower(q))
                        /\ message.args = <<product.attributes.v[i].key,
                                            PyStr(product.attributes.v[i].value)>>
            ELSE IF InCategory(q, product)
            THEN message = Message("This is a highly rated item in the {category} category.",
                                   <<product.category.v>>)
            ELSE message = Message("Relevant to your search for '{query}' based on semantic similarity.",
                                   <<q>>)

\* the attribute message is given although the query is in the category too
C16_Witness ==
    /\ Explained
    /\ WellFormed(explained.product)
    /\ ~InTitle(explained.query, explained.product)
    /\ InAttributes(explained.query, explained.product)
    /\ InCategory(explained.query, explained.product)
    /\ explained.explanation.text = "Selected because it has the attribute {key}: {value}."

\* the text a field holds, with the default of product.get for a missing key
TextOr(val, default) == IF val.t = "missing" THEN default ELSE val.v

\* a statement of the try block raises: the product is None; or the title
\* is None; or the query is not in the title and the attributes are None;
\* or neither title nor attributes match and the category is None
Raises(q, product) ==
    \/ product.t = "none"
    \/ /\ product.t = "dict"
       /\ \/ product.title.t = "none"
          \/ /\ ~Contains(Lower(q), Lower(TextOr(product.title, Item)))
             /\ \/ product.attributes.t = "none"
                \/ /\ \A i \in DOMAIN TextOr(product.attributes, <<>>) :
                          ~Contains(Lower(PyStr(product.attributes.v[i].value)), Lower(q))
                   /\ product.category.t = "none"

\* C17: generate_explanation returns a string for every query and record;
\* when a step inside it fails the string is the fixed fallback; search
\* returns every ranked result, each with an explanation
C17_ExplainIsTotal ==
    /\ Explained =>
           /\ explained.explanation.t = "str"
           /\ Raises(explained.query, explained.product)
                  => explained.explanation = FallbackMessage
    /\ (rpc = "done" /\ ranked # <<>>) =>
           /\ returned.status = "returned"
           /\ Len(returned.results) = Len(ranked)
           /\ \A i \in DOMAIN ranked :
                  /\ returned.results[i].id = ranked[i].id
                  /\ returned.results[i].explanation.t = "str"

\* the title is text without the query, no attribute matches, and the
\* category is None: the failure comes at the last test of the cascade
C17_Witness ==
    /\ Explained
    /\ explained.product.t = "dict"
    /\ explained.product.title.t = "str"
    /\ explained.product.attributes.t = "dict"
    /\ explained.product.category.t = "none"
    /\ Raises(explained.query, explained.product)
    /\ explained.explanation = FallbackMessage

\* =================================================================
\* Further properties of the extractor, the merger and the predicate
\* =================================================================

\* C24: in the Constraints that extract returns, conflict is true exactly
\* when price_min and price_max are both set and price_min > price_max,
\* a bound equal to 0 included
C24_ConflictIffMinAboveMax ==
    spc # "idle" =>
        (nlp_constraints.conflict
            <=> /\ ~IsNone(nlp_constraints.price_min)
                /\ ~IsNone(nlp_constraints.price_max)
                /\ nlp_constraints.price_min.v > nlp_constraints.price_max.v)

\* C25: in the merged filters, conflict is true exactly when the final
\* price_min and price_max are both set and price_min > price_max,
\* whatever the conflict flag of the Constraints and of the caller
C25_ConflictRecomputed ==
    Merged =>
        (merged_filters.conflict
            <=> /\ ~IsNone(merged_filters.price_min)
                /\ ~IsNone(merged_filters.price_max)
                /\ merged_filters.price_min.v > merged_filters.price_max.v)

\* the Constraints and the caller both carry conflict = true, the caller's
\* price_max replaces the query's, and the merged filters do not conflict
C25_Witness ==
    /\ Merged
    /\ nlp_constraints.conflict
    /\ HasCaller
    /\ ~IsNone(ui_filters.conflict)
    /\ ~CallerEmpty(CallerPriceMax)
    /\ ~merged_filters.conflict

\* C30: with a merged brand and conflict false, a product passes only if
\* the brand is contained, case-insensitively, in its brand field; the
\* rows of the store have no brand field, so every product is rejected,
\* also one whose title or description holds the brand
C30_BrandRejectsEveryRow ==
    (spc = "filtered" /\ ~IsNone(merged_filters.brand) /\ ~merged_filters.conflict) =>
        \A i \in DOMAIN ProductStore :
            /\ passes[i] => Contains(Lower(merged_filters.brand.v), <<>>)
            /\ ~passes[i]

\* the brand comes from the query and stands in a product's description;
\* no other filter is set
C30_Witness ==
    /\ spc = "filtered"
    /\ ~merged_filters.conflict
    /\ ~IsNone(merged_filters.brand)
    /\ ~HasCaller
    /\ IsNone(merged_filters.price_min) /\ IsNone(merged_filters.price_max)
    /\ IsNone(merged_filters.min_rating)
    /\ \E i \in DOMAIN ProductStore :
           /\ Contains(Lower(merged_filters.brand.v), Lower(ProductStore[i].description))
           /\ ~passes[i]

\* =================================================================
\* Determinism of the extractor
\* =================================================================

\* C21: extract is deterministic: an evaluation on the same query, in this
\* or in another process (so in any order of visiting the known words),
\* returns the semantic query and the constraints that were returned,
\* also when the query holds several known colours
C21_ExtractDeterministic ==
    spc = "extracted" =>
        \A colors \in IterationOrders(COLORS) :
            Intent(query, colors) = [semantic_query |-> semantic_query,
                                     constraints |-> nlp_constraints]

\* the non-blank characters of a query outside every removal span
Outside(text) ==
    LET order == CHOOSE colors \in IterationOrders(COLORS) : TRUE
        spans == Range(removal_spans(SearchPatterns(Lower(text), order)))
    IN  Pick(text, {i \in DOMAIN text :
                       /\ text[i] \notin Whitespace
                       /\ \A sp \in spans : ~(sp[1] < i /\ i <= sp[2])})

\* C26: cleaning removes the removal spans and nothing else: every
\* character of the query outside all removal spans (so every category,
\* brand and colour word) is still in the semantic query, in its order,
\* blanks apart, also when two removal spans overlap
C26_OutsideSpansKept ==
    spc = "extracted" => IsSubsequence(Outside(query), Solid(semantic_query))

\* =================================================================
\* The similarity score
\* =================================================================

\* the distance of the candidate a result was made from
DistanceOf(r) == (CHOOSE c \in Range(candidates) : c.id = r.id).distance

\* the number of ten-thousandths nearest to 1 / (1 + distance)
Quotient4(distance) == RoundHalfEven(10000 * DistanceUnit, DistanceUnit + distance)

\* C27 (as stated): the score of a result is 1.0 for distance 0, lies in
\* (0, 1], is 1 / (1 + distance) rounded to 4 decimals, and is strictly
\* smaller for a strictly larger distance
C27_SimilarityStrictlyDecreasing ==
    rpc = "collected" =>
        \A r1, r2 \in Range(results) :
            /\ DistanceOf(r1) = 0 => r1.similarity_score = One
            /\ 0 < r1.similarity_score /\ r1.similarity_score <= One
            /\ r1.similarity_score = Float(Quotient4(DistanceOf(r1)), 10000)
            /\ DistanceOf(r1) < DistanceOf(r2) => r1.similarity_score > r2.similarity_score

\* C27 (amended): the score of a result is 1.0 for distance 0, lies in
\* (0, 1], is 1 / (1 + distance) rounded to 4 decimals, and is not larger
\* for a larger distance: it is smaller exactly when the two quotients
\* round to different ten-thousandths
C27_SimilarityRoundedDecreasing ==
    rpc = "collected" =>
        \A r1, r2 \in Range(results) :
            /\ DistanceOf(r1) = 0 => r1.similarity_score = One
            /\ 0 < r1.similarity_score /\ r1.similarity_score <= One
            /\ r1.similarity_score = Float(Quotient4(DistanceOf(r1)), 10000)
            /\ DistanceOf(r1) < DistanceOf(r2) =>
                   /\ r1.similarity_score >= r2.similarity_score
                   /\ r1.similarity_score > r2.similarity_score
                          <=> Quotient4(DistanceOf(r1)) > Quotient4(DistanceOf(r2))

\* two results of one search at different distances with the same score
C27_Witness ==
    /\ rpc = "collected"
    /\ \E r1, r2 \in Range(results) :
           /\ DistanceOf(r1) < DistanceOf(r2)
           /\ r1.similarity_score = r2.similarity_score
    /\ \E r \in Range(results) : DistanceOf(r) > 0 /\ r.similarity_score < One

\* =================================================================
\* What ranking and enrichment leave alone
\* =================================================================

\* the ways of putting n results in an order
Orderings(n) ==
    {p \in [1..n -> 1..n] : \A i, j \in 1..n : p[i] = p[j] => i = j}

\* C29: the list that ranking returns is its input in some order, each
\* result unchanged but for its similarity_score (so the same length and
\* the same ids, none added, removed or duplicated); enrichment returns
\* the ranked list in the same order, each result unchanged but for its
\* explanation
C29_RankingAndEnrichmentFrame ==
    /\ rpc \in {"ranked", "done"} =>
           /\ Len(ranked) = Len(results)
           /\ \E p \in Orderings(Len(results)) :
                  \A i \in DOMAIN ranked :
                      ranked[i] = [results[p[i]] EXCEPT
                                      !.similarity_score = ranked[i].similarity_score]
    /\ rpc = "done" =>
           /\ Len(returned.results) = Len(ranked)
           /\ \A i \in DOMAIN ranked :
                  returned.results[i] = [ranked[i] EXCEPT
                                            !.explanation = returned.results[i].explanation]

\* two results came back in the other order, with a changed score and
\* with explanations
C29_Witness ==
    /\ rpc = "done"
    /\ Len(results) = 2
    /\ results[1].id # results[2].id
    /\ ranked[1].id = results[2].id
    /\ ranked[1].similarity_score # results[2].similarity_score
    /\ \A i \in DOMAIN returned.results : returned.results[i].explanation # PyNone

\* =================================================================
\* Ranking and the events table
\* =================================================================

\* the rows of the events table that are clicks on product pid
ClicksOn(pid) ==
    {i \in DOMAIN store :
        /\ EventContent(store[i]).event_type = "click"
        /\ EventContent(store[i]).payload.product_id = pid}

\* C23: metrics are read fresh for every query: rows stay in the events
\* table, and the ranking step of every search counts, for each result,
\* the clicks that are in the table at that moment (so every click
\* persisted before the search began) and boosts the score by that
\* count, whatever an earlier query had read
C23_MetricsReadFresh ==
    [][/\ Len(store) <= Len(store') /\ SubSeq(store', 1, Len(store)) = store
       /\ (rpc = "collected" /\ rpc' = "ranked") =>
              \A i \in DOMAIN results :
                  /\ ClicksOf(metrics', results[i].id) = Cardinality(ClicksOn(results[i].id))
                  /\ adjusted'[i].similarity_score =
                         NewScore(results[i].similarity_score,
                                  Cardinality(ClicksOn(results[i].id)))]_vars

\* an earlier search returned a product without a boost, a click on it
\* was persisted, and the search after it has boosted the product
C23_Witness ==
    /\ rpc = "ranked"
    /\ returned.status = "returned"
    /\ \E i \in DOMAIN returned.results, j \in DOMAIN results :
           /\ returned.results[i].id = results[j].id
           /\ returned.results[i].similarity_score = results[j].similarity_score
           /\ ClicksOn(results[j].id) # {}
           /\ ClicksOf(metrics, results[j].id) = Cardinality(ClicksOn(results[j].id))
           /\ adjusted[j].similarity_score > results[j].similarity_score

\* =================================================================
\* Order of the events table
\* =================================================================

\* the consumer tasks spawned so far
Spawned == {t \in TaskIds : tasks[t].pc # "none"}

\* the rows of the events table are in the order of acceptance (events
\* are numbered in the order track_event received them)
StoreInOrder ==
    \A i, j \in DOMAIN store : i < j => store[i] < store[j]

\* C28: with a single consumer, events are persisted in the order in
\* which track_event accepted them, under every interleaving of
\* producers, the worker, the thread pool and stop_worker
C28_FifoWithSingleConsumer ==
    Cardinality(Spawned) <= 1 => StoreInOrder

\* the only consumer spawned so far has persisted two events, in order
C28_Witness ==
    /\ Cardinality(Spawned) = 1
    /\ Len(store) >= 2
    /\ StoreInOrder

\* =================================================================
\* A search and the other requests
\* =================================================================

\* the search has called a collaborator (vector index, product store,
\* behavior store, explanation) and has not returned yet
SearchWaiting == rpc \in {"searched", "collected", "ranked"}

\* C22: a search waiting on a collaborator call does not keep event
\* enqueues or the Event Worker from making progress: what track_event
\* and the consumer tasks could do next, they can do while the search
\* waits
C22_WaitsAreIndependent ==
    SearchWaiting =>
        /\ ENABLED TrackEvent => ENABLED LoopTrackEvent
        /\ ENABLED WorkerStep => ENABLED LoopWorkerStep

====
